---- MODULE Spec2Model ----
(***************************************************************************)
(* Field-parsing and uncertainty-scoring pipeline of the OCR platform:     *)
(*   core/parsers.py     UncertaintyEngine and the organisation parsers    *)
(*   core/ocr_engine.py  OCREngine.process_document_with_parser and its    *)
(*                       regex fallback                                    *)
(*   core/config.py      DocumentConfig and the parser-mapping table       *)
(* Texts are TLA+ strings; a character is a string of length one.  The     *)
(* Cyrillic letters of the sources are written with Latin stand-ins (the   *)
(* regular expressions of the sources treat both alphabets alike).         *)
(***************************************************************************)
EXTENDS Integers, Sequences, FiniteSets, TLC

VARIABLES config, idx, results, shadow, hist, pc, call, session_state

vars == <<config, idx, results, shadow, hist, pc, call, session_state>>

(***************************************************************************)
(* Strings                                                                 *)
(***************************************************************************)

Char(s, i) == SubSeq(s, i, i)

Digits == {"0", "1", "2", "3", "4", "5", "6", "7", "8", "9"}

UpperAlphabet == "ABCDEFGHIJKLMNOPQRSTUVWXYZ"

LowerAlphabet == "abcdefghijklmnopqrstuvwxyz"

UpperLetters == {Char(UpperAlphabet, i) : i \in 1..Len(UpperAlphabet)}

LowerLetters == {Char(LowerAlphabet, i) : i \in 1..Len(LowerAlphabet)}

\* \s of the re module and the characters str.strip() removes
Whitespace == {" ", "\n", "\t"}

\* \w of the re module
WordChars == Digits \cup UpperLetters \cup LowerLetters \cup {"_"}

Hyphen == {"-"}

RECURSIVE LStrip(_)
LStrip(s) ==
    IF Len(s) > 0 /\ Char(s, 1) \in Whitespace THEN LStrip(SubSeq(s, 2, Len(s))) ELSE s

RECURSIVE RStrip(_)
RStrip(s) ==
    IF Len(s) > 0 /\ Char(s, Len(s)) \in Whitespace THEN RStrip(SubSeq(s, 1, Len(s) - 1)) ELSE s

\* str.strip()
Strip(s) == RStrip(LStrip(s))

\* len(re.findall(r'\d', text))
RECURSIVE CountDigits(_)
CountDigits(s) ==
    IF Len(s) = 0 THEN 0
    ELSE (IF Char(s, 1) \in Digits THEN 1 ELSE 0) + CountDigits(SubSeq(s, 2, Len(s)))

\* str.upper()
RECURSIVE Upper(_)
Upper(s) ==
    IF Len(s) = 0 THEN ""
    ELSE LET c == Char(s, 1)
             up == IF c \in LowerLetters
                   THEN Char(UpperAlphabet, CHOOSE i \in 1..Len(LowerAlphabet) : Char(LowerAlphabet, i) = c)
                   ELSE c
         IN  up \o Upper(SubSeq(s, 2, Len(s)))

\* `sub in s`
Contains(s, sub) == \E i \in 1..(Len(s) - Len(sub) + 1) : SubSeq(s, i, i + Len(sub) - 1) = sub

\* s.replace(old, new) for a non-empty old
RECURSIVE Replace(_, _, _)
Replace(s, old, new) ==
    IF Len(s) < Len(old) THEN s
    ELSE IF SubSeq(s, 1, Len(old)) = old
         THEN new \o Replace(SubSeq(s, Len(old) + 1, Len(s)), old, new)
         ELSE Char(s, 1) \o Replace(SubSeq(s, 2, Len(s)), old, new)

\* s.rstrip(chars)
RECURSIVE RStripChars(_, _)
RStripChars(s, chars) ==
    IF Len(s) > 0 /\ Char(s, Len(s)) \in chars THEN RStripChars(SubSeq(s, 1, Len(s) - 1), chars)
    ELSE s

\* re.sub(r'\s+', ' ', s)
RECURSIVE CollapseWhitespace(_)
CollapseWhitespace(s) ==
    IF Len(s) = 0 THEN ""
    ELSE IF Char(s, 1) \in Whitespace
         THEN " " \o CollapseWhitespace(LStrip(s))
         ELSE Char(s, 1) \o CollapseWhitespace(SubSeq(s, 2, Len(s)))

\* s.split(sep) for a one-character sep: the pieces between the separators
RECURSIVE SplitEachFrom(_, _, _, _)
SplitEachFrom(text, seps, pos, cur) ==
    IF pos > Len(text) THEN <<cur>>
    ELSE IF Char(text, pos) \in seps
         THEN <<cur>> \o SplitEachFrom(text, seps, pos + 1, "")
         ELSE SplitEachFrom(text, seps, pos + 1, cur \o Char(text, pos))

SplitEach(text, seps) == SplitEachFrom(text, seps, 1, "")

\* ''.join(re.findall(r'\d', text))
RECURSIVE DigitsOf(_)
DigitsOf(s) ==
    IF Len(s) = 0 THEN ""
    ELSE (IF Char(s, 1) \in Digits THEN Char(s, 1) ELSE "") \o DigitsOf(SubSeq(s, 2, Len(s)))

\* str.lower()
RECURSIVE Lower(_)
Lower(s) ==
    IF Len(s) = 0 THEN ""
    ELSE LET c == Char(s, 1)
             low == IF c \in UpperLetters
                    THEN Char(LowerAlphabet, CHOOSE i \in 1..Len(UpperAlphabet) : Char(UpperAlphabet, i) = c)
                    ELSE c
         IN  low \o Lower(SubSeq(s, 2, Len(s)))

\* s[:n], which stops at the end of a shorter string
Prefix(s, n) == SubSeq(s, 1, IF Len(s) < n THEN Len(s) ELSE n)

\* str.zfill(width)
RECURSIVE ZFill(_, _)
ZFill(s, width) == IF Len(s) >= width THEN s ELSE ZFill("0" \o s, width)

DecimalDigits == "0123456789"

\* int(s) of a string of digits
RECURSIVE IntOf(_)
IntOf(s) ==
    IF Len(s) = 0 THEN 0
    ELSE 10 * IntOf(SubSeq(s, 1, Len(s) - 1))
         + ((CHOOSE i \in 1..10 : Char(DecimalDigits, i) = Char(s, Len(s))) - 1)

\* str(n) of a natural number
RECURSIVE StrOfNat(_)
StrOfNat(n) ==
    IF n < 10 THEN Char(DecimalDigits, n + 1)
    ELSE StrOfNat(n \div 10) \o Char(DecimalDigits, (n % 10) + 1)

\* re.sub(r'[^\d\s]', ' ', text): every character outside keep becomes a space
RECURSIVE ReplaceOutside(_, _)
ReplaceOutside(s, keep) ==
    IF Len(s) = 0 THEN ""
    ELSE (IF Char(s, 1) \in keep THEN Char(s, 1) ELSE " ") \o ReplaceOutside(SubSeq(s, 2, Len(s)), keep)

(***************************************************************************)
(* Regular expressions: a pattern is a sequence of atoms, an atom is a     *)
(* character class repeated lo..hi times (hi = -1: unbounded), greedy,     *)
(* belonging to capture group grp (0: none).  Match and Search follow the  *)
(* backtracking order of re.search: leftmost start, longest repetition     *)
(* first.                                                                  *)
(***************************************************************************)

Atom(cls, lo, hi, grp) == [cls |-> cls, lo |-> lo, hi |-> hi, grp |-> grp]

NoMatchLens == <<-1>>

RECURSIVE RunLen(_, _, _, _)
RunLen(cls, text, pos, cap) ==
    IF cap = 0 \/ pos > Len(text) THEN 0
    ELSE IF Char(text, pos) \notin cls THEN 0
    ELSE 1 + RunLen(cls, text, pos + 1, cap - 1)

RECURSIVE MatchFrom(_, _, _, _)
RECURSIVE TryCount(_, _, _, _, _)
MatchFrom(pat, k, text, pos) ==
    IF k > Len(pat) THEN << >>
    ELSE LET cap == IF pat[k].hi < 0 THEN Len(text) ELSE pat[k].hi
         IN  TryCount(pat, k, text, pos, RunLen(pat[k].cls, text, pos, cap))

TryCount(pat, k, text, pos, n) ==
    IF n < pat[k].lo THEN NoMatchLens
    ELSE LET rest == MatchFrom(pat, k + 1, text, pos + n)
         IN  IF rest = NoMatchLens THEN TryCount(pat, k, text, pos, n - 1)
             ELSE <<n>> \o rest

NoMatch == [start |-> 0, lens |-> << >>]

RECURSIVE SearchFrom(_, _, _)
SearchFrom(pat, text, start) ==
    IF start > Len(text) + 1 THEN NoMatch
    ELSE LET m == MatchFrom(pat, 1, text, start)
         IN  IF m = NoMatchLens THEN SearchFrom(pat, text, start + 1)
             ELSE [start |-> start, lens |-> m]

\* re.search(pattern, text)
Search(pat, text) == SearchFrom(pat, text, 1)

\* the characters consumed by the atoms whose index is in ks
RECURSIVE SumLens(_, _, _)
SumLens(lens, k, ks) ==
    IF k = 0 THEN 0
    ELSE (IF k \in ks THEN lens[k] ELSE 0) + SumLens(lens, k - 1, ks)

\* match.group(g)
Group(pat, text, m, g) ==
    LET inside == {k \in 1..Len(pat) : pat[k].grp = g}
        before == {k \in 1..Len(pat) : \A j \in inside : k < j}
        off == m.start + SumLens(m.lens, Len(pat), before)
        len == SumLens(m.lens, Len(pat), inside)
    IN  SubSeq(text, off, off + len - 1)

\* re.split(r'[\s\-]+', text): the pieces between the maximal separator runs
RECURSIVE SplitFrom(_, _, _, _)
SplitFrom(text, seps, pos, cur) ==
    IF pos > Len(text) THEN <<cur>>
    ELSE IF Char(text, pos) \in seps
         THEN LET n == RunLen(seps, text, pos, Len(text))
              IN  <<cur>> \o SplitFrom(text, seps, pos + n, "")
         ELSE SplitFrom(text, seps, pos + 1, cur \o Char(text, pos))

Split(text, seps) == SplitFrom(text, seps, 1, "")

(***************************************************************************)
(* Python values a parser callable can hand back: str, bool, None, tuple.  *)
(***************************************************************************)

PyStr(s) == [t |-> "str", s |-> s, b |-> FALSE, e |-> << >>]

PyBool(b) == [t |-> "bool", s |-> "", b |-> b, e |-> << >>]

PyNone == [t |-> "none", s |-> "", b |-> FALSE, e |-> << >>]

PyTuple(e) == [t |-> "tuple", s |-> "", b |-> FALSE, e |-> e]

PyTrue == PyBool(TRUE)

\* len(v) raises TypeError for None and bool
LenRaises(v) == v.t \in {"none", "bool"}

\* len(v) of a str or a tuple
PyLen(v) == IF v.t = "str" THEN Len(v.s) ELSE Len(v.e)

\* v[i] (0-based in the source, 1-based here) of a str or a tuple
PyItem(v, i) == IF v.t = "str" THEN PyStr(Char(v.s, i)) ELSE v.e[i]

\* truth value of v in a condition
Truthy(v) ==
    CASE v.t = "bool" -> v.b
      [] v.t = "str" -> Len(v.s) > 0
      [] v.t = "none" -> FALSE
      [] OTHER -> Len(v.e) > 0

\* repr(v) of a value that is not a tuple
ReprLeaf(v) ==
    CASE v.t = "str" -> "'" \o v.s \o "'"
      [] v.t = "bool" -> (IF v.b THEN "True" ELSE "False")
      [] OTHER -> "None"

RECURSIVE ReprItems(_)
ReprItems(e) ==
    IF Len(e) = 0 THEN ""
    ELSE IF Len(e) = 1 THEN ReprLeaf(e[1])
    ELSE ReprLeaf(e[1]) \o ", " \o ReprItems(Tail(e))

\* str(v)
StrOf(v) ==
    CASE v.t = "str" -> v.s
      [] v.t = "tuple" -> (IF Len(v.e) = 1 THEN "(" \o ReprLeaf(v.e[1]) \o ",)"
                           ELSE "(" \o ReprItems(v.e) \o ")")
      [] OTHER -> ReprLeaf(v)

(***************************************************************************)
(* Dictionaries: functions from a finite set of keys.                      *)
(***************************************************************************)

EmptyDict == << >>

\* d.get(k, default)
Get(d, k, default) == IF k \in DOMAIN d THEN d[k] ELSE default

\* d[k] = v
Put(d, k, v) == [x \in (DOMAIN d) \cup {k} |-> IF x = k THEN v ELSE d[x]]

(***************************************************************************)
(* UncertaintyEngine                                                       *)
(***************************************************************************)

KnownOrganizations == {"1T", "ROSNOU", "FINUNIVERSITY"}

Thresholds ==
    [o \in KnownOrganizations |->
        CASE o = "1T" -> [min_reg_digits |-> 4, min_name_length |-> 5, min_number_length |-> 4]
          [] o = "ROSNOU" -> [min_reg_digits |-> 3, min_name_length |-> 8, min_number_length |-> 6]
          [] OTHER -> [min_reg_digits |-> 4, min_name_length |-> 8, min_number_length |-> 8]]

SeriesFieldNames == {"series_and_number", "series", "number"}

\* should_flag_uncertainty with 0 as the default of every threshold lookup
ShouldFlagUncertaintyZeroDefaults(organization, field_name, original_text, parsed_result, corrections_made) ==
    LET cfg == Get(Thresholds, organization, EmptyDict)
    IN  IF corrections_made THEN TRUE
        ELSE IF field_name = "registration_number"
             THEN CountDigits(original_text) < Get(cfg, "min_reg_digits", 0)
        ELSE IF field_name = "full_name"
             THEN Len(Strip(StrOf(parsed_result))) < Get(cfg, "min_name_length", 0)
        ELSE IF field_name \in SeriesFieldNames
             THEN IF parsed_result.t = "tuple" /\ Len(parsed_result.e) >= 2
                  THEN Len(StrOf(parsed_result.e[2])) < Get(cfg, "min_number_length", 0)
                  ELSE IF parsed_result.t = "str"
                       THEN Len(parsed_result.s) < Get(cfg, "min_number_length", 0)
                       ELSE FALSE
        ELSE FALSE

\* should_flag_uncertainty with the corrections_made test made only inside
\* the branches of the three field families
ShouldFlagUncertaintyCorrectionsInBranches(organization, field_name, original_text, parsed_result, corrections_made) ==
    LET cfg == Get(Thresholds, organization, EmptyDict)
    IN  IF field_name = "registration_number"
        THEN corrections_made \/ CountDigits(original_text) < Get(cfg, "min_reg_digits", 3)
        ELSE IF field_name = "full_name"
             THEN corrections_made \/ Len(Strip(StrOf(parsed_result))) < Get(cfg, "min_name_length", 5)
        ELSE IF field_name \in SeriesFieldNames
             THEN IF parsed_result.t = "tuple" /\ Len(parsed_result.e) >= 2
                  THEN corrections_made
                       \/ Len(StrOf(parsed_result.e[2])) < Get(cfg, "min_number_length", 4)
                  ELSE IF parsed_result.t = "str"
                       THEN corrections_made \/ Len(parsed_result.s) < Get(cfg, "min_number_length", 4)
                       ELSE corrections_made
        ELSE FALSE

\* should_flag_uncertainty counting the digits of the parsed value instead
\* of those of the original text
ShouldFlagUncertaintyCountingParsedDigits(organization, field_name, original_text, parsed_result, corrections_made) ==
    LET cfg == Get(Thresholds, organization, EmptyDict)
    IN  IF corrections_made THEN TRUE
        ELSE IF field_name = "registration_number"
             THEN CountDigits(StrOf(parsed_result)) < Get(cfg, "min_reg_digits", 3)
        ELSE IF field_name = "full_name"
             THEN Len(Strip(StrOf(parsed_result))) < Get(cfg, "min_name_length", 5)
        ELSE IF field_name \in SeriesFieldNames
             THEN IF parsed_result.t = "tuple" /\ Len(parsed_result.e) >= 2
                  THEN Len(StrOf(parsed_result.e[2])) < Get(cfg, "min_number_length", 4)
                  ELSE IF parsed_result.t = "str"
                       THEN Len(parsed_result.s) < Get(cfg, "min_number_length", 4)
                       ELSE FALSE
        ELSE FALSE

\* should_flag_uncertainty measuring parsed_result[0] instead of
\* parsed_result[1]
ShouldFlagUncertaintyFirstElement(organization, field_name, original_text, parsed_result, corrections_made) ==
    LET cfg == Get(Thresholds, organization, EmptyDict)
    IN  IF corrections_made THEN TRUE
        ELSE IF field_name = "registration_number"
             THEN CountDigits(original_text) < Get(cfg, "min_reg_digits", 3)
        ELSE IF field_name = "full_name"
             THEN Len(Strip(StrOf(parsed_result))) < Get(cfg, "min_name_length", 5)
        ELSE IF field_name \in SeriesFieldNames
             THEN IF parsed_result.t = "tuple" /\ Len(parsed_result.e) >= 2
                  THEN Len(StrOf(parsed_result.e[1])) < Get(cfg, "min_number_length", 4)
                  ELSE IF parsed_result.t = "str"
                       THEN Len(parsed_result.s) < Get(cfg, "min_number_length", 4)
                       ELSE FALSE
        ELSE FALSE

\* UncertaintyEngine(organization).should_flag_uncertainty(field_name,
\*     original_text, parsed_result, corrections_made)
ShouldFlagUncertainty(organization, field_name, original_text, parsed_result, corrections_made) ==
    LET cfg == Get(Thresholds, organization, EmptyDict)
    IN  IF corrections_made THEN TRUE
        ELSE IF field_name = "registration_number"
             THEN CountDigits(original_text) < Get(cfg, "min_reg_digits", 3)
        ELSE IF field_name = "full_name"
             THEN Len(Strip(StrOf(parsed_result))) < Get(cfg, "min_name_length", 5)
        ELSE IF field_name \in SeriesFieldNames
             THEN IF parsed_result.t = "tuple" /\ Len(parsed_result.e) >= 2
                  THEN Len(StrOf(parsed_result.e[2])) < Get(cfg, "min_number_length", 4)
                  ELSE IF parsed_result.t = "str"
                       THEN Len(parsed_result.s) < Get(cfg, "min_number_length", 4)
                       ELSE FALSE
        ELSE FALSE

(***************************************************************************)
(* OCREngine._parse_series_number_fallback                                 *)
(***************************************************************************)

\* r'(\d{2})\s*(\d{6})'
FallbackPattern1 == <<Atom(Digits, 2, 2, 1), Atom(Whitespace, 0, -1, 0), Atom(Digits, 6, 6, 2)>>

\* r'(\d{2})-?\w?\s*(\d{8,10})'
FallbackPattern2 ==
    <<Atom(Digits, 2, 2, 1), Atom(Hyphen, 0, 1, 0), Atom(WordChars, 0, 1, 0),
      Atom(Whitespace, 0, -1, 0), Atom(Digits, 8, 10, 2)>>

\* r'(\d{2,4})\s+(\d{8,})'
FallbackPattern3 == <<Atom(Digits, 2, 4, 1), Atom(Whitespace, 1, -1, 0), Atom(Digits, 8, -1, 2)>>

FallbackPatterns == <<FallbackPattern1, FallbackPattern2, FallbackPattern3>>

RECURSIVE FirstMatching(_, _, _)
FirstMatching(patterns, text, k) ==
    IF k > Len(patterns) THEN 0
    ELSE IF Search(patterns[k], text) # NoMatch THEN k
    ELSE FirstMatching(patterns, text, k + 1)

\* _parse_series_number_fallback with its last pattern tried first
ParseSeriesNumberFallbackLastPatternFirst(text) ==
    LET order == <<FallbackPattern3, FallbackPattern1, FallbackPattern2>>
        k == FirstMatching(order, text, 1)
        parts == Split(Strip(text), Whitespace \cup Hyphen)
    IN  IF k > 0
        THEN LET m == Search(order[k], text)
             IN  <<Group(order[k], text, m, 1), Group(order[k], text, m, 2)>>
        ELSE IF Len(parts) >= 2 THEN <<parts[1], parts[2]>>
        ELSE <<"", Strip(text)>>

\* _parse_series_number_fallback(text): the pair (series, number)
ParseSeriesNumberFallback(text) ==
    LET k == FirstMatching(FallbackPatterns, text, 1)
        parts == Split(Strip(text), Whitespace \cup Hyphen)
    IN  IF k > 0
        THEN LET m == Search(FallbackPatterns[k], text)
             IN  <<Group(FallbackPatterns[k], text, m, 1), Group(FallbackPatterns[k], text, m, 2)>>
        ELSE IF Len(parts) >= 2 THEN <<parts[1], parts[2]>>
        ELSE <<"", Strip(text)>>

(***************************************************************************)
(* datetime(year, month, day).date().isoformat()                           *)
(***************************************************************************)

DaysInMonth(y, m) ==
    LET IsLeapYear == (y % 4 = 0 /\ y % 100 # 0) \/ y % 400 = 0
    IN  IF m = 2 THEN (IF IsLeapYear THEN 29 ELSE 28)
        ELSE IF m \in {4, 6, 9, 11} THEN 30 ELSE 31

\* datetime(y, m, d) raises ValueError unless this holds
ValidDate(y, m, d) == y >= 1 /\ m \in 1..12 /\ d >= 1 /\ d <= DaysInMonth(y, m)

IsoFormat(y, m, d) ==
    ZFill(StrOfNat(y), 4) \o "-" \o ZFill(StrOfNat(m), 2) \o "-" \o ZFill(StrOfNat(d), 2)

(***************************************************************************)
(* CommonParsers.  A simple parser returns (value, uncertain), the         *)
(* series-and-number parsers return (series, number, uncertain).           *)
(***************************************************************************)

Result2(value, uncertain) == PyTuple(<<PyStr(value), PyBool(uncertain)>>)

Result3(series, number, uncertain) == PyTuple(<<PyStr(series), PyStr(number), PyBool(uncertain)>>)

\* the twelve month names of the sources, transliterated
Months ==
    [n \in {"yanvarya", "fevralya", "marta", "aprelya", "maya", "iyunya", "iyulya",
            "avgusta", "sentyabrya", "oktyabrya", "noyabrya", "dekabrya"} |->
        CASE n = "yanvarya" -> "01" [] n = "fevralya" -> "02" [] n = "marta" -> "03"
          [] n = "aprelya" -> "04" [] n = "maya" -> "05" [] n = "iyunya" -> "06"
          [] n = "iyulya" -> "07" [] n = "avgusta" -> "08" [] n = "sentyabrya" -> "09"
          [] n = "oktyabrya" -> "10" [] n = "noyabrya" -> "11" [] OTHER -> "12"]

\* r'(\d{1,2})\s+(\w+)\s+(\d{4})'
DateStandardPattern ==
    <<Atom(Digits, 1, 2, 1), Atom(Whitespace, 1, -1, 0), Atom(WordChars, 1, -1, 2),
      Atom(Whitespace, 1, -1, 0), Atom(Digits, 4, 4, 3)>>

\* parse_date_standard returning the bare trimmed text, without the flag,
\* where it gives up
ParseDateStandardBareText(text) ==
    LET m == Search(DateStandardPattern, text)
        day == Group(DateStandardPattern, text, m, 1)
        month_str == Group(DateStandardPattern, text, m, 2)
        year == Group(DateStandardPattern, text, m, 3)
        month == Get(Months, Lower(month_str), "")
    IN  IF m # NoMatch /\ month # "" /\ ValidDate(IntOf(year), IntOf(month), IntOf(day))
        THEN Result2(IsoFormat(IntOf(year), IntOf(month), IntOf(day)), FALSE)
        ELSE PyStr(Strip(text))

\* parse_date_standard looking the month up without lowercasing it
ParseDateStandardCaseSensitive(text) ==
    LET m == Search(DateStandardPattern, text)
        day == Group(DateStandardPattern, text, m, 1)
        month_str == Group(DateStandardPattern, text, m, 2)
        year == Group(DateStandardPattern, text, m, 3)
        month == Get(Months, month_str, "")
    IN  IF m # NoMatch /\ month # "" /\ ValidDate(IntOf(year), IntOf(month), IntOf(day))
        THEN Result2(IsoFormat(IntOf(year), IntOf(month), IntOf(day)), FALSE)
        ELSE Result2(Strip(text), TRUE)

\* parse_date_standard returning the trimmed text unflagged where it gives up
ParseDateStandardUnflaggedFailure(text) ==
    LET m == Search(DateStandardPattern, text)
        day == Group(DateStandardPattern, text, m, 1)
        month_str == Group(DateStandardPattern, text, m, 2)
        year == Group(DateStandardPattern, text, m, 3)
        month == Get(Months, Lower(month_str), "")
    IN  IF m # NoMatch /\ month # "" /\ ValidDate(IntOf(year), IntOf(month), IntOf(day))
        THEN Result2(IsoFormat(IntOf(year), IntOf(month), IntOf(day)), FALSE)
        ELSE Result2(Strip(text), FALSE)

\* CommonParsers.parse_date_standard(text)
ParseDateStandard(text) ==
    LET m == Search(DateStandardPattern, text)
        day == Group(DateStandardPattern, text, m, 1)
        month_str == Group(DateStandardPattern, text, m, 2)
        year == Group(DateStandardPattern, text, m, 3)
        month == Get(Months, Lower(month_str), "")
    IN  IF m # NoMatch /\ month # "" /\ ValidDate(IntOf(year), IntOf(month), IntOf(day))
        THEN Result2(IsoFormat(IntOf(year), IntOf(month), IntOf(day)), FALSE)
        ELSE Result2(Strip(text), TRUE)

\* CommonParsers.parse_fullname_simple(text)
ParseFullnameSimple(text) == Result2(Strip(text), Len(Strip(text)) < 8)

(***************************************************************************)
(* OneTParsers                                                             *)
(***************************************************************************)

\* r'(\d{2})\s*(\d{6})', r'(\d{2})[\s-]*(\d{6})', r'(\d{2})(\d{6})'
OneTSeriesPatterns ==
    <<<<Atom(Digits, 2, 2, 1), Atom(Whitespace, 0, -1, 0), Atom(Digits, 6, 6, 2)>>,
      <<Atom(Digits, 2, 2, 1), Atom(Whitespace \cup Hyphen, 0, -1, 0), Atom(Digits, 6, 6, 2)>>,
      <<Atom(Digits, 2, 2, 1), Atom(Digits, 6, 6, 2)>>>>

\* parse_series_and_number without the replacement of the other characters
OneTParseSeriesAndNumberUncleaned(text) ==
    LET cleaned == Strip(text)
        k == FirstMatching(OneTSeriesPatterns, cleaned, 1)
    IN  IF k > 0
        THEN LET m == Search(OneTSeriesPatterns[k], cleaned)
                 series == Group(OneTSeriesPatterns[k], cleaned, m, 1)
                 number == Group(OneTSeriesPatterns[k], cleaned, m, 2)
             IN  Result3(series, number, Len(number) < 4)
        ELSE Result3("", "", TRUE)

\* OneTParsers.parse_series_and_number(text)
OneTParseSeriesAndNumber(text) ==
    LET cleaned == ReplaceOutside(Strip(text), Digits \cup Whitespace)
        k == FirstMatching(OneTSeriesPatterns, cleaned, 1)
    IN  IF k > 0
        THEN LET m == Search(OneTSeriesPatterns[k], cleaned)
                 series == Group(OneTSeriesPatterns[k], cleaned, m, 1)
                 number == Group(OneTSeriesPatterns[k], cleaned, m, 2)
             IN  Result3(series, number, Len(number) < 4)
        ELSE Result3("", "", TRUE)

\* parse_reg_number without the zfill(6)
OneTParseRegNumberUnpadded(text) ==
    LET digits == DigitsOf(text)
    IN  IF Len(digits) = 0 THEN Result2("000000", TRUE)
        ELSE Result2(digits, Len(digits) < 4)

\* OneTParsers.parse_reg_number(text)
OneTParseRegNumber(text) ==
    LET digits == DigitsOf(text)
    IN  IF Len(digits) = 0 THEN Result2("000000", TRUE)
        ELSE Result2(IF Len(digits) <= 6 THEN ZFill(digits, 6) ELSE digits, Len(digits) < 4)

\* OneTParsers.parse_date_certificate(text)
OneTParseDateCertificate(text) == ParseDateStandard(text)

\* r'(\d{1,2})\.(\d{1,2})\.(\d{4})'
DateDiplomaPattern ==
    <<Atom(Digits, 1, 2, 1), Atom({"."}, 1, 1, 0), Atom(Digits, 1, 2, 2),
      Atom({"."}, 1, 1, 0), Atom(Digits, 4, 4, 3)>>

\* OneTParsers.parse_date_diploma(text)
OneTParseDateDiploma(text) ==
    LET m == Search(DateDiplomaPattern, text)
        day == IntOf(Group(DateDiplomaPattern, text, m, 1))
        month == IntOf(Group(DateDiplomaPattern, text, m, 2))
        year == IntOf(Group(DateDiplomaPattern, text, m, 3))
    IN  IF m # NoMatch /\ ValidDate(year, month, day)
        THEN Result2(IsoFormat(year, month, day), FALSE)
        ELSE Result2(Strip(text), TRUE)

(***************************************************************************)
(* RosNouParsers                                                           *)
(***************************************************************************)

\* parse_series_and_number rewriting the series without setting
\* corrections_made
RosNouParseSeriesAndNumberSilentRewrite(text) ==
    LET digits == DigitsOf(text)
        series == SubSeq(digits, 1, 2)
        number == IF Len(digits) >= 12 THEN SubSeq(digits, 3, 12) ELSE SubSeq(digits, 3, 10)
    IN  IF Len(digits) >= 10
        THEN Result3(IF series \in {"71", "11", "17"} THEN "77" ELSE series, number,
                     Len(number) < 8)
        ELSE Result3(IF Len(digits) >= 2 THEN ZFill(SubSeq(digits, 1, 2), 2) ELSE "00",
                     IF Len(digits) > 2 THEN SubSeq(digits, 3, Len(digits)) ELSE "",
                     TRUE)

\* RosNouParsers.parse_series_and_number(text)
RosNouParseSeriesAndNumber(text) ==
    LET digits == DigitsOf(text)
        series == SubSeq(digits, 1, 2)
        number == IF Len(digits) >= 12 THEN SubSeq(digits, 3, 12) ELSE SubSeq(digits, 3, 10)
        corrections_made == series \in {"71", "11", "17"}
    IN  IF Len(digits) >= 10
        THEN Result3(IF corrections_made THEN "77" ELSE series, number,
                     Len(number) < 8 \/ corrections_made)
        ELSE Result3(IF Len(digits) >= 2 THEN ZFill(SubSeq(digits, 1, 2), 2) ELSE "00",
                     IF Len(digits) > 2 THEN SubSeq(digits, 3, Len(digits)) ELSE "",
                     TRUE)

\* ocr_corrections of parse_reg_number_diploma, in the order of the dict
DiplomaCorrections == <<"BAS", "VAS", "8AS", "AS", "8", "4", "0">>

\* text_upper after the first n corrections of the loop
RECURSIVE AfterCorrections(_, _)
AfterCorrections(s, n) ==
    IF n = 0 THEN s
    ELSE LET prev == AfterCorrections(s, n - 1)
         IN  IF Contains(prev, DiplomaCorrections[n]) THEN Replace(prev, DiplomaCorrections[n], "D")
             ELSE prev

\* r'(\d{5})-[ДД]'
RegDiplomaPattern == <<Atom(Digits, 5, 5, 1), Atom(Hyphen, 1, 1, 0), Atom({"D"}, 1, 1, 0)>>

\* parse_reg_number_diploma taking the digits of its fallback from the
\* corrected text
RosNouParseRegNumberDiplomaCorrectedDigits(text) ==
    LET original_text == Upper(text)
        text_upper == AfterCorrections(original_text, Len(DiplomaCorrections))
        corrections_made == \E n \in 1..Len(DiplomaCorrections) :
                                Contains(AfterCorrections(original_text, n - 1), DiplomaCorrections[n])
        m == Search(RegDiplomaPattern, text_upper)
        digits == DigitsOf(text_upper)
    IN  IF m # NoMatch
        THEN Result2(Group(RegDiplomaPattern, text_upper, m, 1) \o "-D", corrections_made)
        ELSE IF Len(digits) > 0
             THEN Result2(ZFill(Prefix(digits, 5), 5) \o "-D", TRUE)
             ELSE Result2("00000-D", TRUE)

\* parse_reg_number_diploma returning a match as confident whatever was
\* corrected
RosNouParseRegNumberDiplomaConfidentMatch(text) ==
    LET original_text == Upper(text)
        text_upper == AfterCorrections(original_text, Len(DiplomaCorrections))
        m == Search(RegDiplomaPattern, text_upper)
        digits == DigitsOf(text)
    IN  IF m # NoMatch
        THEN Result2(Group(RegDiplomaPattern, text_upper, m, 1) \o "-D", FALSE)
        ELSE IF Len(digits) > 0
             THEN Result2(ZFill(Prefix(digits, 5), 5) \o "-D", TRUE)
             ELSE Result2("00000-D", TRUE)

\* RosNouParsers.parse_reg_number_diploma(text)
RosNouParseRegNumberDiploma(text) ==
    LET original_text == Upper(text)
        text_upper == AfterCorrections(original_text, Len(DiplomaCorrections))
        corrections_made == \E n \in 1..Len(DiplomaCorrections) :
                                Contains(AfterCorrections(original_text, n - 1), DiplomaCorrections[n])
        m == Search(RegDiplomaPattern, text_upper)
        digits == DigitsOf(text)
    IN  IF m # NoMatch
        THEN Result2(Group(RegDiplomaPattern, text_upper, m, 1) \o "-D", corrections_made)
        ELSE IF Len(digits) > 0
             THEN Result2(ZFill(Prefix(digits, 5), 5) \o "-D", TRUE)
             ELSE Result2("00000-D", TRUE)

\* r'([А-Я]{2,3})-(\d{2,3})'
RegCertificatePattern == <<Atom(UpperLetters, 2, 3, 1), Atom(Hyphen, 1, 1, 0), Atom(Digits, 2, 3, 2)>>

\* letter_corrections of parse_reg_number_certificate
LetterCorrections ==
    [w \in {"PAD", "A", "4"} |-> IF w = "PAD" THEN "PK" ELSE "K"]

\* RosNouParsers.parse_reg_number_certificate(text)
RosNouParseRegNumberCertificate(text) ==
    LET m == Search(RegCertificatePattern, Upper(text))
        letters == Group(RegCertificatePattern, Upper(text), m, 1)
        number == Group(RegCertificatePattern, Upper(text), m, 2)
        corrections_made == letters \in DOMAIN LetterCorrections
    IN  IF m # NoMatch
        THEN Result2((IF corrections_made THEN LetterCorrections[letters] ELSE letters)
                     \o "-" \o number, corrections_made)
        ELSE Result2("PK-000", TRUE)

\* [line.strip() for line in text.split('\n') if line.strip()]
RECURSIVE NonBlankLines(_, _)
NonBlankLines(parts, k) ==
    IF k > Len(parts) THEN << >>
    ELSE (IF Strip(parts[k]) = "" THEN << >> ELSE <<Strip(parts[k])>>) \o NonBlankLines(parts, k + 1)

\* RosNouParsers.parse_fullname_diploma(text)
RosNouParseFullnameDiploma(text) ==
    LET lines == NonBlankLines(SplitEach(text, {"\n"}), 1)
    IN  IF Len(lines) >= 2
        THEN Result2(lines[1] \o " " \o lines[2], Len(lines[1]) < 2 \/ Len(lines[2]) < 2)
        ELSE IF Len(lines) = 1
             THEN Result2(Strip(lines[1]), Len(Strip(lines[1])) < 8)
             ELSE Result2(Strip(text), TRUE)

\* RosNouParsers.parse_fullname_certificate(text)
RosNouParseFullnameCertificate(text) == Result2(Strip(text), Len(Strip(text)) < 8)

(***************************************************************************)
(* FinUnivParsers                                                          *)
(***************************************************************************)

\* r'([А-ЯA-Z]{2,4})\s+(\d{8,})', r'(\d{2,4})\s+(\d{8,})', r'([А-ЯA-Z]{2,4})(\d{8,})'
FinUnivSeriesPatterns ==
    <<<<Atom(UpperLetters, 2, 4, 1), Atom(Whitespace, 1, -1, 0), Atom(Digits, 8, -1, 2)>>,
      <<Atom(Digits, 2, 4, 1), Atom(Whitespace, 1, -1, 0), Atom(Digits, 8, -1, 2)>>,
      <<Atom(UpperLetters, 2, 4, 1), Atom(Digits, 8, -1, 2)>>>>

\* parse_series_and_number_v1 trying the digit series before the letter
\* series
FinUnivParseSeriesAndNumberV1DigitsFirst(text) ==
    LET upper == Upper(text)
        order == <<FinUnivSeriesPatterns[2], FinUnivSeriesPatterns[1], FinUnivSeriesPatterns[3]>>
        k == FirstMatching(order, upper, 1)
    IN  IF k > 0
        THEN LET m == Search(order[k], upper)
                 series == Group(order[k], upper, m, 1)
                 number == Group(order[k], upper, m, 2)
             IN  Result3(series, number, Len(number) < 8)
        ELSE Result3("", "", TRUE)

\* FinUnivParsers.parse_series_and_number_v1(text)
FinUnivParseSeriesAndNumberV1(text) ==
    LET upper == Upper(text)
        k == FirstMatching(FinUnivSeriesPatterns, upper, 1)
    IN  IF k > 0
        THEN LET m == Search(FinUnivSeriesPatterns[k], upper)
                 series == Group(FinUnivSeriesPatterns[k], upper, m, 1)
                 number == Group(FinUnivSeriesPatterns[k], upper, m, 2)
             IN  Result3(series, number, Len(number) < 8)
        ELSE Result3("", "", TRUE)

\* FinUnivParsers.parse_series_and_number_v2(text)
FinUnivParseSeriesAndNumberV2(text) == FinUnivParseSeriesAndNumberV1(text)

\* r'(\d+\.?\d*)'
FinUnivRegPattern == <<Atom(Digits, 1, -1, 1), Atom({"."}, 0, 1, 1), Atom(Digits, 0, -1, 1)>>

\* FinUnivParsers.parse_reg_number_v1(text)
FinUnivParseRegNumberV1(text) ==
    LET m == Search(FinUnivRegPattern, text)
        result == Group(FinUnivRegPattern, text, m, 1)
    IN  IF m # NoMatch THEN Result2(result, Len(result) < 5) ELSE Result2(Strip(text), TRUE)

\* FinUnivParsers.parse_reg_number_v2(text)
FinUnivParseRegNumberV2(text) == FinUnivParseRegNumberV1(text)

\* FinUnivParsers.parse_fullname_simple(text)
FinUnivParseFullnameSimple(text) == Result2(Strip(text), Len(Strip(text)) < 8)

\* r'(\w+\-?\w*)\s+(\w+\-?\w*)\s+(\w+\-?\w*)', r'(\w+)\s+(\w+)\s+(\w+)', r'(\w+)\s+(\w+)'
FullnamePatterns ==
    <<<<Atom(WordChars, 1, -1, 1), Atom(Hyphen, 0, 1, 1), Atom(WordChars, 0, -1, 1),
        Atom(Whitespace, 1, -1, 0),
        Atom(WordChars, 1, -1, 2), Atom(Hyphen, 0, 1, 2), Atom(WordChars, 0, -1, 2),
        Atom(Whitespace, 1, -1, 0),
        Atom(WordChars, 1, -1, 3), Atom(Hyphen, 0, 1, 3), Atom(WordChars, 0, -1, 3)>>,
      <<Atom(WordChars, 1, -1, 1), Atom(Whitespace, 1, -1, 0), Atom(WordChars, 1, -1, 2),
        Atom(Whitespace, 1, -1, 0), Atom(WordChars, 1, -1, 3)>>,
      <<Atom(WordChars, 1, -1, 1), Atom(Whitespace, 1, -1, 0), Atom(WordChars, 1, -1, 2)>>>>

\* FinUnivParsers.parse_fullname_complex(text)
FinUnivParseFullnameComplex(text) ==
    LET cleaned_text ==
            CollapseWhitespace(Strip(ReplaceOutside(text, WordChars \cup Whitespace \cup Hyphen)))
        k == FirstMatching(FullnamePatterns, cleaned_text, 1)
    IN  IF k > 0
        THEN LET m == Search(FullnamePatterns[k], cleaned_text)
                 surname == RStripChars(Group(FullnamePatterns[k], cleaned_text, m, 1), Hyphen)
                 name == RStripChars(Group(FullnamePatterns[k], cleaned_text, m, 2), Hyphen)
                 patronymic == IF k < 3
                               THEN RStripChars(Group(FullnamePatterns[k], cleaned_text, m, 3), Hyphen)
                               ELSE ""
             IN  Result2(IF patronymic # "" THEN surname \o " " \o name \o " " \o patronymic
                         ELSE surname \o " " \o name, TRUE)
        ELSE Result2(Strip(cleaned_text), TRUE)

\* r'(\d{1,2})\s+(\w+)\s+(\d{4})', r'«?(\d{1,2})\s*»?\s+(\w+)\s+(\d{4})',
\* with < and > for the guillemets
DateFromTextPatterns ==
    <<DateStandardPattern,
      <<Atom({"<"}, 0, 1, 0), Atom(Digits, 1, 2, 1), Atom(Whitespace, 0, -1, 0),
        Atom({">"}, 0, 1, 0), Atom(Whitespace, 1, -1, 0), Atom(WordChars, 1, -1, 2),
        Atom(Whitespace, 1, -1, 0), Atom(Digits, 4, 4, 3)>>>>

\* the loop over date_patterns from pattern k on: the first pattern that
\* matches with a known month and a valid date
RECURSIVE DateFromPatterns(_, _)
DateFromPatterns(text, k) ==
    IF k > Len(DateFromTextPatterns) THEN Result2(Strip(text), TRUE)
    ELSE LET pat == DateFromTextPatterns[k]
             m == Search(pat, text)
             day == IntOf(Group(pat, text, m, 1))
             month == Get(Months, Lower(Group(pat, text, m, 2)), "")
             year == IntOf(Group(pat, text, m, 3))
         IN  IF m # NoMatch /\ month # "" /\ ValidDate(year, IntOf(month), day)
             THEN Result2(IsoFormat(year, IntOf(month), day), FALSE)
             ELSE DateFromPatterns(text, k + 1)

\* FinUnivParsers.parse_date_from_text(text)
FinUnivParseDateFromText(text) == DateFromPatterns(text, 1)

(***************************************************************************)
(* DocumentConfig and ConfigManager                                        *)
(***************************************************************************)

StandardFields == <<"full_name", "series_and_number", "registration_number", "issue_date">>

\* the standard fields and a field of a loaded configuration that no parser
\* mapping knows
FieldNames == {StandardFields[i] : i \in 1..Len(StandardFields)} \cup {"qualification"}

\* DocumentConfig.patterns: None, or a dict from field names to callables
NoPatterns == [present |-> FALSE, map |-> EmptyDict]

Patterns(map) == [present |-> TRUE, map |-> map]

\* a callable that is not one of the parsers of core/parsers.py
Callable == "callable"

\* parsers_mapping of ConfigManager._setup_parsers
ParsersMapping ==
    [k \in {"1T_CERTIFICATE", "1T_DIPLOMA", "ROSNOU_DIPLOMA", "ROSNOU_CERTIFICATE",
            "FINUNIVCERTV1", "FINUNIVCERTV2"} |->
        [f \in {StandardFields[i] : i \in 1..Len(StandardFields)} |->
            CASE k = "1T_CERTIFICATE" ->
                    (CASE f = "series_and_number" -> "OneTParsers.parse_series_and_number"
                       [] f = "registration_number" -> "OneTParsers.parse_reg_number"
                       [] f = "issue_date" -> "OneTParsers.parse_date_certificate"
                       [] OTHER -> "CommonParsers.parse_fullname_simple")
              [] k = "1T_DIPLOMA" ->
                    (CASE f = "series_and_number" -> "OneTParsers.parse_series_and_number"
                       [] f = "registration_number" -> "OneTParsers.parse_reg_number"
                       [] f = "issue_date" -> "OneTParsers.parse_date_diploma"
                       [] OTHER -> "CommonParsers.parse_fullname_simple")
              [] k = "ROSNOU_DIPLOMA" ->
                    (CASE f = "series_and_number" -> "RosNouParsers.parse_series_and_number"
                       [] f = "registration_number" -> "RosNouParsers.parse_reg_number_diploma"
                       [] f = "issue_date" -> "CommonParsers.parse_date_standard"
                       [] OTHER -> "RosNouParsers.parse_fullname_diploma")
              [] k = "ROSNOU_CERTIFICATE" ->
                    (CASE f = "series_and_number" -> "RosNouParsers.parse_series_and_number"
                       [] f = "registration_number" -> "RosNouParsers.parse_reg_number_certificate"
                       [] f = "issue_date" -> "CommonParsers.parse_date_standard"
                       [] OTHER -> "RosNouParsers.parse_fullname_certificate")
              [] k = "FINUNIVCERTV1" ->
                    (CASE f = "series_and_number" -> "FinUnivParsers.parse_series_and_number_v1"
                       [] f = "registration_number" -> "FinUnivParsers.parse_reg_number_v1"
                       [] f = "issue_date" -> "FinUnivParsers.parse_date_from_text"
                       [] OTHER -> "FinUnivParsers.parse_fullname_simple")
              [] OTHER ->
                    (CASE f = "series_and_number" -> "FinUnivParsers.parse_series_and_number_v2"
                       [] f = "registration_number" -> "FinUnivParsers.parse_reg_number_v2"
                       [] f = "issue_date" -> "FinUnivParsers.parse_date_from_text"
                       [] OTHER -> "FinUnivParsers.parse_fullname_complex")]]

\* ConfigManager._setup_parsers: the patterns a loaded configuration gets
SetupParsers(config_key) ==
    IF config_key \in DOMAIN ParsersMapping THEN Patterns(ParsersMapping[config_key]) ELSE NoPatterns

\* the outcome of calling a callable: it raised, or it returned val
Raised == [raised |-> TRUE, val |-> PyNone]

Returned(val) == [raised |-> FALSE, val |-> val]

\* parser(raw_text) for the parsers of core/parsers.py; what any other
\* callable does is given by other
CallParser(parser, raw_text, other) ==
    CASE parser = "OneTParsers.parse_series_and_number" -> Returned(OneTParseSeriesAndNumber(raw_text))
      [] parser = "OneTParsers.parse_reg_number" -> Returned(OneTParseRegNumber(raw_text))
      [] parser = "OneTParsers.parse_date_certificate" -> Returned(OneTParseDateCertificate(raw_text))
      [] parser = "OneTParsers.parse_date_diploma" -> Returned(OneTParseDateDiploma(raw_text))
      [] parser = "CommonParsers.parse_fullname_simple" -> Returned(ParseFullnameSimple(raw_text))
      [] parser = "CommonParsers.parse_date_standard" -> Returned(ParseDateStandard(raw_text))
      [] parser = "RosNouParsers.parse_series_and_number" ->
            Returned(RosNouParseSeriesAndNumber(raw_text))
      [] parser = "RosNouParsers.parse_reg_number_diploma" ->
            Returned(RosNouParseRegNumberDiploma(raw_text))
      [] parser = "RosNouParsers.parse_reg_number_certificate" ->
            Returned(RosNouParseRegNumberCertificate(raw_text))
      [] parser = "RosNouParsers.parse_fullname_diploma" ->
            Returned(RosNouParseFullnameDiploma(raw_text))
      [] parser = "RosNouParsers.parse_fullname_certificate" ->
            Returned(RosNouParseFullnameCertificate(raw_text))
      [] parser = "FinUnivParsers.parse_series_and_number_v1" ->
            Returned(FinUnivParseSeriesAndNumberV1(raw_text))
      [] parser = "FinUnivParsers.parse_series_and_number_v2" ->
            Returned(FinUnivParseSeriesAndNumberV2(raw_text))
      [] parser = "FinUnivParsers.parse_reg_number_v1" ->
            Returned(FinUnivParseRegNumberV1(raw_text))
      [] parser = "FinUnivParsers.parse_reg_number_v2" ->
            Returned(FinUnivParseRegNumberV2(raw_text))
      [] parser = "FinUnivParsers.parse_fullname_simple" ->
            Returned(FinUnivParseFullnameSimple(raw_text))
      [] parser = "FinUnivParsers.parse_fullname_complex" ->
            Returned(FinUnivParseFullnameComplex(raw_text))
      [] parser = "FinUnivParsers.parse_date_from_text" ->
            Returned(FinUnivParseDateFromText(raw_text))
      [] OTHER -> other

(***************************************************************************)
(* OCREngine.process_document_with_parser: the body of the loop over       *)
(* config.fields.  A branch yields the new results, whether an exception   *)
(* leaves the loop body, and whether it called the parser and the          *)
(* uncertainty engine.                                                     *)
(***************************************************************************)

\* f'uncertain_{field_name}'
UncertainKey(field_name) == "uncertain_" \o field_name

Outcome(res, exc, parser, engine) ==
    [results |-> res, exc |-> exc, parser |-> parser, engine |-> engine]

\* config.patterns and field_name in config.patterns
HasParser(patterns, field_name) ==
    patterns.present /\ DOMAIN patterns.map # {} /\ field_name \in DOMAIN patterns.map

\* results['series'] = series; results['number'] = number
PutSeriesNumber(res, series, number) == Put(Put(res, "series", series), "number", number)

\* only the series half is marked
MarkSeriesOnly(res) == Put(res, "uncertain_series", PyTrue)

\* results['uncertain_series'] = True; results['uncertain_number'] = True
MarkSeriesNumber(res) == Put(Put(res, "uncertain_series", PyTrue), "uncertain_number", PyTrue)

\* results[f'uncertain_{field_name}'] = True
MarkField(res, field_name) == Put(res, UncertainKey(field_name), PyTrue)

\* lines 174-184 without the case of 'series_and_number'
EmptyTextBranchGeneric(res, field_name) ==
    MarkField(Put(res, field_name, PyStr("")), field_name)

\* lines 174-184 with the writes left out: the field is skipped
EmptyTextBranchSkipping(res, field_name) == res

\* lines 174-184 writing the empty values without their uncertain markers
EmptyTextBranchUnmarked(res, field_name) ==
    IF field_name = "series_and_number"
    THEN PutSeriesNumber(res, PyStr(""), PyStr(""))
    ELSE Put(res, field_name, PyStr(""))

\* lines 174-184: the trimmed raw text is empty
EmptyTextBranch(res, field_name) ==
    IF field_name = "series_and_number"
    THEN MarkSeriesNumber(PutSeriesNumber(res, PyStr(""), PyStr("")))
    ELSE MarkField(Put(res, field_name, PyStr("")), field_name)

\* lines 212-216 and 219-223: the regex fallback, both halves uncertain
CompositeFallback(res, raw_text) ==
    LET pair == ParseSeriesNumberFallback(raw_text)
    IN  MarkSeriesNumber(PutSeriesNumber(res, PyStr(pair[1]), PyStr(pair[2])))

\* lines 194-202: the parser returned three elements
CompositeWellFormed(res, organization, raw_text, parsed_result) ==
    LET series == PyItem(parsed_result, 1)
        number == PyItem(parsed_result, 2)
        uncertain == PyItem(parsed_result, 3)
        written == PutSeriesNumber(res, series, number)
        flagged == Truthy(uncertain)
                   \/ ShouldFlagUncertainty(organization, "series_and_number", raw_text,
                                            PyTuple(<<series, number>>), FALSE)
    IN  Outcome(IF flagged THEN MarkSeriesNumber(written) ELSE written,
                FALSE, TRUE, ~Truthy(uncertain))

\* lines 204-208 running the regex fallback instead
CompositeMalformedByRegex(res, raw_text) == CompositeFallback(res, raw_text)

\* lines 204-208: the parser returned something of another length
CompositeMalformed(res, raw_text) ==
    MarkSeriesNumber(PutSeriesNumber(res, PyStr(""), PyStr(raw_text)))

\* lines 187-223: field 'series_and_number'
CompositeBranch(res, organization, patterns, raw_text, called) ==
    IF HasParser(patterns, "series_and_number")
    THEN IF called.raised \/ LenRaises(called.val)
         THEN Outcome(CompositeFallback(res, raw_text), FALSE, TRUE, FALSE)
         ELSE IF PyLen(called.val) = 3
              THEN CompositeWellFormed(res, organization, raw_text, called.val)
              ELSE Outcome(CompositeMalformed(res, raw_text), FALSE, TRUE, FALSE)
    ELSE Outcome(CompositeFallback(res, raw_text), FALSE, FALSE, FALSE)

\* lines 232-238 looking at the parser's bit only
SimpleWellFormedBitOnly(res, organization, field_name, raw_text, parsed_result) ==
    LET value == parsed_result.e[1]
        uncertain == parsed_result.e[2]
        written == Put(res, field_name, value)
    IN  Outcome(IF Truthy(uncertain) THEN MarkField(written, field_name) ELSE written,
                FALSE, TRUE, FALSE)

\* lines 232-238 storing the verdict itself, True or False
SimpleWellFormedStoringVerdict(res, organization, field_name, raw_text, parsed_result) ==
    LET value == parsed_result.e[1]
        uncertain == parsed_result.e[2]
        written == Put(res, field_name, value)
        flagged == Truthy(uncertain)
                   \/ ShouldFlagUncertainty(organization, field_name, raw_text, value,
                                            Truthy(uncertain))
    IN  Outcome(Put(written, UncertainKey(field_name), PyBool(flagged)),
                FALSE, TRUE, ~Truthy(uncertain))

\* lines 232-238: the parser returned a 2-tuple
SimpleWellFormed(res, organization, field_name, raw_text, parsed_result) ==
    LET value == parsed_result.e[1]
        uncertain == parsed_result.e[2]
        written == Put(res, field_name, value)
        flagged == Truthy(uncertain)
                   \/ ShouldFlagUncertainty(organization, field_name, raw_text, value,
                                            Truthy(uncertain))
    IN  Outcome(IF flagged THEN MarkField(written, field_name) ELSE written,
                FALSE, TRUE, ~Truthy(uncertain))

\* lines 239-241 storing the result itself, without str()
SimpleMalformedUnconverted(res, field_name, parsed_result) ==
    MarkField(Put(res, field_name, parsed_result), field_name)

\* lines 239-241: the parser returned anything else
SimpleMalformed(res, field_name, parsed_result) ==
    MarkField(Put(res, field_name, PyStr(StrOf(parsed_result))), field_name)

\* lines 242-248 without the uncertain marker
SimpleRawTextUnmarked(res, field_name, raw_text) == Put(res, field_name, PyStr(raw_text))

\* lines 242-245 and 246-248: the raw text, uncertain
SimpleRawText(res, field_name, raw_text) ==
    MarkField(Put(res, field_name, PyStr(raw_text)), field_name)

\* lines 225-248 without the try/except around the parser call
SimpleBranchUncaught(res, organization, patterns, field_name, raw_text, called) ==
    IF HasParser(patterns, field_name)
    THEN IF called.raised
         THEN Outcome(res, TRUE, TRUE, FALSE)
         ELSE IF called.val.t = "tuple" /\ Len(called.val.e) = 2
              THEN SimpleWellFormed(res, organization, field_name, raw_text, called.val)
              ELSE Outcome(SimpleMalformed(res, field_name, called.val), FALSE, TRUE, FALSE)
    ELSE Outcome(SimpleRawText(res, field_name, raw_text), FALSE, FALSE, FALSE)

\* lines 225-248: every other field
SimpleBranch(res, organization, patterns, field_name, raw_text, called) ==
    IF HasParser(patterns, field_name)
    THEN IF called.raised
         THEN Outcome(SimpleRawText(res, field_name, raw_text), FALSE, TRUE, FALSE)
         ELSE IF called.val.t = "tuple" /\ Len(called.val.e) = 2
              THEN SimpleWellFormed(res, organization, field_name, raw_text, called.val)
              ELSE Outcome(SimpleMalformed(res, field_name, called.val), FALSE, TRUE, FALSE)
    ELSE Outcome(SimpleRawText(res, field_name, raw_text), FALSE, FALSE, FALSE)

\* lines 167-248 without the empty-text branch
ProcessFieldNoEmptyCheck(res, organization, patterns, field_name, raw_text, called) ==
    IF field_name = "series_and_number"
    THEN CompositeBranch(res, organization, patterns, raw_text, called)
    ELSE SimpleBranch(res, organization, patterns, field_name, raw_text, called)

\* lines 167-248: one iteration of the loop
ProcessField(res, organization, patterns, field_name, raw_text, called) ==
    IF Strip(raw_text) = ""
    THEN Outcome(EmptyTextBranch(res, field_name), FALSE, FALSE, FALSE)
    ELSE IF field_name = "series_and_number"
         THEN CompositeBranch(res, organization, patterns, raw_text, called)
         ELSE SimpleBranch(res, organization, patterns, field_name, raw_text, called)

\* OCREngine.extract_text_from_region: the recognised text trimmed, and ""
\* when the recognition raised
ExtractTextFromRegion(ocr) == IF ocr.raised THEN "" ELSE Strip(ocr.val)

(***************************************************************************)
(* The configurations and inputs of the model                              *)
(***************************************************************************)

\* the largest number of fields of a loaded, manual or hand-built configuration
MaxFields == 2

\* the sequences without repetition over the names in S, at most MaxFields long
FieldSeqs(S) ==
    {q \in UNION {[1..n -> S] : n \in 0..MaxFields} :
        \A i, j \in DOMAIN q : i # j => q[i] # q[j]}

Config(name, organization, fields, patterns) ==
    [name |-> name, organization |-> organization, fields |-> fields, patterns |-> patterns]

\* configurations of data/configs.json: the six keys of the parser mapping
\* and one key the mapping does not know
LoadedOrganizations ==
    [k \in DOMAIN ParsersMapping \cup {"ROSNOU_LICENSE"} |->
        CASE k \in {"1T_CERTIFICATE", "1T_DIPLOMA"} -> "1T"
          [] k \in {"FINUNIVCERTV1", "FINUNIVCERTV2"} -> "FINUNIVERSITY"
          [] OTHER -> "ROSNOU"]

\* ConfigManager._create_default_configs
DefaultConfig == Config("DEFAULT", "GENERIC", StandardFields, NoPatterns)

\* the configurations process_document_with_parser is given: the loaded
\* ones with their parsers, the default one, those of manual markup
\* (process_current_page: the fields the user has marked) and a DocumentConfig
\* built with callables of its own for two of its fields
Configs ==
    LET LoadedConfigs ==
            {Config(k, LoadedOrganizations[k], q, SetupParsers(k)) :
                k \in DOMAIN LoadedOrganizations, q \in FieldSeqs(FieldNames)}
        ManualConfigs ==
            {Config("MANUAL", "MANUAL", q, NoPatterns) :
                q \in FieldSeqs({StandardFields[i] : i \in 1..Len(StandardFields)}) \ {<< >>}}
        CustomFields == {"series_and_number", "full_name", "registration_number"}
        CustomPatterns == Patterns([f \in {"series_and_number", "full_name"} |-> Callable])
        CustomConfigs ==
            {Config("CUSTOM", "CUSTOM", q, CustomPatterns) : q \in FieldSeqs(CustomFields)}
    IN  LoadedConfigs \cup {DefaultConfig} \cup ManualConfigs \cup CustomConfigs

(***************************************************************************)
(* The state machine of process_document_with_parser                       *)
(*   config   the DocumentConfig being processed                           *)
(*   idx      the number of fields the loop has handled                    *)
(*   results  the dict being built                                         *)
(*   hist     for every handled field: its raw text, what its parser did   *)
(*            (if called) and whether the uncertainty engine was asked     *)
(*   shadow   the results of the reference run: the same texts, but a      *)
(*            parser that failed in this run returns ReferenceResult there *)
(*   pc       "loop", "done" (returned) or "raised" (exception escaped)    *)
(*   call     a call of a pure function, used by SpecFlag                  *)
(*   session_state  the session of the application, used by SpecApp        *)
(***************************************************************************)

\* a text of the JSON editor: "empty", "invalid" (not JSON), an "array", or
\* an "object" of members whose values are objects of string and boolean
\* literals
JsonText(t, members) == [t |-> t, members |-> members]

\* init_session_state(): st.session_state of a new session
InitialSession ==
    [images |-> << >>, current_page |-> 0, selected_config |-> "None", manual_mode |-> FALSE,
     field_coords |-> << >>, results |-> EmptyDict, processing_complete |-> FALSE,
     show_all_pages |-> FALSE, json_editor_content |-> JsonText("empty", << >>)]

NoCall == [op |-> "none", args |-> << >>, ret |-> FALSE, done |-> FALSE]

NotCalled == [raised |-> FALSE, val |-> PyStr("<not called>")]

\* the configured parser of a field, if any
ParserOf(patterns, field_name) ==
    IF HasParser(patterns, field_name) THEN patterns.map[field_name] ELSE "none"

\* everything parser(raw_text) may do: a parser of core/parsers.py does one
\* thing, a callable that is not one of them any of CallableOutcomes
ParserOutcomes(parser, raw_text) ==
    LET CallableOutcomes ==
            {Raised, Returned(PyNone), Returned(PyStr("abc"))}
            \cup {Returned(Result2("Li", FALSE)), Returned(Result2("Petrov Petr", FALSE)),
                  Returned(Result2("Petrov Petr", TRUE))}
            \cup {Returned(Result3("02", "123", FALSE)), Returned(Result3("02", "12345678", FALSE)),
                  Returned(Result3("02", "12345678", TRUE))}
    IN  IF parser = Callable THEN CallableOutcomes ELSE {CallParser(parser, raw_text, Raised)}

\* the parser failed: it raised or returned a result of the wrong shape
Failed(field_name, called) ==
    \/ called.raised
    \/ IF field_name = "series_and_number"
       THEN LenRaises(called.val) \/ PyLen(called.val) # 3
       ELSE ~(called.val.t = "tuple" /\ Len(called.val.e) = 2)

\* what the parser of the reference run returns where this run's parser failed
ReferenceResult(field_name) ==
    IF field_name = "series_and_number"
    THEN Returned(Result3("77", "2024000010", FALSE))
    ELSE Returned(Result2("Sidorov Sidor", FALSE))

Init ==
    /\ config \in Configs
    /\ idx = 0
    /\ results = EmptyDict
    /\ shadow = EmptyDict
    /\ hist = EmptyDict
    /\ session_state = InitialSession
    /\ pc = "loop"
    /\ call = NoCall

\* one iteration of `for field_name, box in config.fields.items()`
Step ==
    /\ pc = "loop"
    /\ idx < Len(config.fields)
    \* what pytesseract.image_to_string yields for a region, or an exception
    /\ \E ocr \in {Raised} \cup
                  {Returned(t) : t \in {"", " \n", "ab", " 02 123456\n", "Ivanov Ivan",
                                        "15 marta 2024", "20.12.2024", "."}} :
      \E called \in ParserOutcomes(ParserOf(config.patterns, config.fields[idx + 1]),
                                   ExtractTextFromRegion(ocr)) :
        LET field_name == config.fields[idx + 1]
            raw_text == ExtractTextFromRegion(ocr)
            out == ProcessField(results, config.organization, config.patterns,
                                field_name, raw_text, called)
            ref == ProcessField(shadow, config.organization, config.patterns, field_name, raw_text,
                                IF Failed(field_name, called) THEN ReferenceResult(field_name)
                                ELSE called)
        IN  /\ hist' = Put(hist, field_name,
                           [raw |-> raw_text,
                            called |-> IF out.parser THEN called ELSE NotCalled,
                            parser |-> out.parser,
                            engine |-> out.engine])
            /\ IF out.exc
               THEN /\ pc' = "raised"
                    /\ UNCHANGED <<idx, results, shadow>>
               ELSE /\ pc' = pc
                    /\ idx' = idx + 1
                    /\ results' = out.results
                    /\ shadow' = ref.results
    /\ UNCHANGED <<config, call, session_state>>

\* `return results`
Return ==
    /\ pc = "loop"
    /\ idx = Len(config.fields)
    /\ pc' = "done"
    /\ UNCHANGED <<config, idx, results, shadow, hist, call, session_state>>

Next == Step \/ Return

Spec == Init /\ [][Next]_vars

(***************************************************************************)
(* Calls of UncertaintyEngine.should_flag_uncertainty on their own         *)
(***************************************************************************)

InitFlag ==
    /\ config = DefaultConfig
    /\ idx = 0
    /\ results = EmptyDict
    /\ shadow = EmptyDict
    /\ hist = EmptyDict
    /\ session_state = InitialSession
    /\ pc = "idle"
    /\ LET FlagValues ==
               {PyStr(""), PyStr("abc"), PyStr("abcd"), PyStr(" Ivan "), PyStr(" Ivanov "),
                PyStr("Petrov Petr"), PyStr("12345"), PyStr("12345678"),
                PyNone, PyTrue,
                PyTuple(<<PyStr("0212345678"), PyStr("")>>), PyTuple(<<PyStr(""), PyStr("123")>>),
                PyTuple(<<PyStr("02"), PyStr("1234")>>), PyTuple(<<PyStr("02"), PyStr("12345")>>),
                PyTuple(<<PyStr("02"), PyStr("123456")>>), PyTuple(<<PyStr("02"), PyStr("12345678")>>),
                PyTuple(<<PyStr("0212345678")>>), PyTuple(<<PyStr("02"), PyNone, PyTrue>>)}
       IN  call \in {[op |-> "should_flag_uncertainty",
                      args |-> [organization |-> o, field_name |-> f, original_text |-> t,
                                parsed_result |-> v, corrections_made |-> c],
                      ret |-> FALSE, done |-> FALSE] :
                        o \in KnownOrganizations \cup {"MANUAL", "GENERIC"},
                        f \in FieldNames \cup {"series", "number"},
                        t \in {"", "ab", "a1b2", "123", "1234", " 02 123456 "},
                        v \in FlagValues, c \in BOOLEAN}

\* UncertaintyEngine(organization).should_flag_uncertainty(...) returns
CallShouldFlag ==
    /\ call.op = "should_flag_uncertainty"
    /\ ~call.done
    /\ call' = [call EXCEPT
                   !.ret = ShouldFlagUncertainty(call.args.organization, call.args.field_name,
                                                 call.args.original_text, call.args.parsed_result,
                                                 call.args.corrections_made),
                   !.done = TRUE]
    /\ UNCHANGED <<config, idx, results, shadow, hist, pc, session_state>>

NextFlag == CallShouldFlag

SpecFlag == InitFlag /\ [][NextFlag]_vars

(***************************************************************************)
(* Calls of the parsers of core/parsers.py on their own                    *)
(***************************************************************************)

\* the functions of CommonParsers, OneTParsers, RosNouParsers and FinUnivParsers
ParserNames ==
    {ParsersMapping[k][f] : k \in DOMAIN ParsersMapping,
                            f \in {StandardFields[i] : i \in 1..Len(StandardFields)}}
    \cup {"CommonParsers.parse_date_standard"}

\* the texts the parsers are called on: texts with a series and a number
\* (from no digit to more than 12 digits), with a day, a word and a year,
\* with a registration number, and others
ParseTexts ==
    LET SeriesTexts ==
            {s \o sep \o n :
                s \in {"", "7", "12", "71", "11", "17", "77"},
                sep \in {"", " ", "-D "},
                n \in {"", "1", "2024", "123456", "1234567", "20240000", "202400001",
                       "2024000010", "20240000107"}}
        DateTexts ==
            {pre \o d \o " " \o w \o " " \o y :
                pre \in {"", "x "},
                d \in {"0", "1", "15", "29", "30", "31", "32"},
                w \in {"fevralya", "Aprelya", "marta", "foo"},
                y \in {"0000", "2023", "2024", "20245"}}
            \cup {d \o "." \o mo \o "." \o y :
                    d \in {"0", "29", "31"}, mo \in {"02", "4", "13"}, y \in {"2023", "2024"}}
        RegTexts ==
            {n \o suffix :
                n \in {"", "1", "123", "1234", "12345", "123456", "1234567", "12845", "12375", "10305"},
                suffix \in {"", "-D", "-d", "D", "-BAS", "-VAS", "-8AS", "-AS", "-as", "-8", " ab"}}
    IN  SeriesTexts \cup DateTexts \cup RegTexts
        \cup {" ", " \n", "ab", "a1b2", "02 123456", " 02 123456\n", "02-123456", "ab02123456x", "1 02 1234567",
              "Ivanov Ivan", "Ivanov\nIvan", "Ivanov-Petrov Ivan Ivanovich-", "PK 771804095780",
              "7733 01156696", "77 7111171171", "17-D 11717117", "06.11373", "PK-243", "pad-12", "<30> maya 2024",
              "<5> maya 2024 31 aprelya 2024", "31 aprelya 2024 1 maya 2024",
              "12 3456 7890 marta 2024", "130 maya 2024",
              "7733 01156696 PK 771804095780", "pk771804095780", "AB 1234567", "ABCDE 12345678",
              "x7733  011566961 y", "PK\n77180409",
              "-ab", "ab-", "-", "ab cd", " ab - cd ef ", "ab\ncd-ef"}

\* the fallback of the orchestrator, called like a parser
FallbackName == "OCREngine._parse_series_number_fallback"

InitParse ==
    /\ config = DefaultConfig
    /\ idx = 0
    /\ results = EmptyDict
    /\ shadow = EmptyDict
    /\ hist = EmptyDict
    /\ session_state = InitialSession
    /\ pc = "idle"
    /\ call \in {[op |-> p, args |-> [text |-> t], ret |-> NotCalled, done |-> FALSE] :
                    p \in ParserNames \cup {FallbackName}, t \in ParseTexts}

\* parser(text) returns or raises
CallRegisteredParser ==
    /\ call.op \in ParserNames
    /\ ~call.done
    /\ call' = [call EXCEPT !.ret = CallParser(call.op, call.args.text, Raised), !.done = TRUE]
    /\ UNCHANGED <<config, idx, results, shadow, hist, pc, session_state>>

\* _parse_series_number_fallback(text) returns its pair
CallFallback ==
    /\ call.op = FallbackName
    /\ ~call.done
    /\ call' = [call EXCEPT
                   !.ret = Returned(PyTuple(<<PyStr(ParseSeriesNumberFallback(call.args.text)[1]),
                                              PyStr(ParseSeriesNumberFallback(call.args.text)[2])>>)),
                   !.done = TRUE]
    /\ UNCHANGED <<config, idx, results, shadow, hist, pc, session_state>>

\* parse_date_standard called again on the value of its own confident result
ReparseOutput ==
    /\ pc = "idle"
    /\ call.op = "CommonParsers.parse_date_standard"
    /\ call.done
    /\ ~call.ret.raised
    /\ ~call.ret.val.e[2].b
    /\ call' = [op |-> call.op, args |-> [text |-> call.ret.val.e[1].s],
                ret |-> CallParser(call.op, call.ret.val.e[1].s, Raised), done |-> TRUE]
    /\ pc' = "reparsed"
    /\ UNCHANGED <<config, idx, results, shadow, hist, session_state>>

NextParse == CallRegisteredParser \/ CallFallback \/ ReparseOutput

SpecParse == InitParse /\ [][NextParse]_vars

(***************************************************************************)
(* The Streamlit application (app.py)                                      *)
(*   session_state  st.session_state:                                      *)
(*     images               the pages of the loaded PDF                    *)
(*     current_page         index (from 0) of the page shown               *)
(*     selected_config      key of the chosen configuration, or "None"     *)
(*     manual_mode          manual markup is chosen                        *)
(*     field_coords         the fields marked by hand, in order            *)
(*     results              page index -> map of that page                 *)
(*     processing_complete, show_all_pages                                 *)
(*     json_editor_content  the text of the JSON editor                    *)
(*   call           the export handed to the download button, if that was  *)
(*                  the last thing done                                    *)
(* Every handler runs to its end in one step (Streamlit runs the script    *)
(* for one event at a time).                                               *)
(***************************************************************************)

\* the largest number of pages of an uploaded PDF
MaxPages == 2

\* the configurations get_available_configs offers besides manual markup
AppConfigKeys == {"1T_CERTIFICATE"}

\* get_config(config_key): every loaded configuration has the four fields
GetConfig(config_key) ==
    Config(config_key, LoadedOrganizations[config_key], StandardFields, SetupParsers(config_key))

\* the field the user marks by hand (markup.field_names has three more)
ManualFieldNames == {"full_name"}

\* process_document_with_parser(image, config) over the first n fields, every
\* region of the page reading text
RECURSIVE ProcessDocumentWithParser(_, _, _)
ProcessDocumentWithParser(cfg, text, n) ==
    IF n = 0 THEN EmptyDict
    ELSE LET field_name == cfg.fields[n]
             raw_text == ExtractTextFromRegion(Returned(text))
             called == CallParser(ParserOf(cfg.patterns, field_name), raw_text, Raised)
         IN  ProcessField(ProcessDocumentWithParser(cfg, text, n - 1), cfg.organization,
                          cfg.patterns, field_name, raw_text, called).results

\* DocumentProcessor.process_single_image: the map of the page, the
\* recognition reading the same text in every region, or {} when the
\* processing raised
ProcessSingleImage(cfg) ==
    {EmptyDict} \cup {ProcessDocumentWithParser(cfg, text, Len(cfg.fields)) :
                         text \in {"Ivanov\n\"Ivan\""}}

\* str(n) of an integer
StrOfInt(n) == IF n < 0 THEN "-" \o StrOfNat(0 - n) ELSE StrOfNat(n)

\* int(s) succeeds: blanks around an optional sign and at least one digit
IsIntLiteral(s) ==
    LET body == Strip(s)
        unsigned == IF Len(body) > 0 /\ Char(body, 1) \in {"+", "-"}
                    THEN SubSeq(body, 2, Len(body)) ELSE body
    IN  Len(unsigned) > 0 /\ \A i \in 1..Len(unsigned) : Char(unsigned, i) \in Digits

\* int(s) of such a string
PyInt(s) ==
    LET body == Strip(s)
    IN  IF Char(body, 1) = "-" THEN 0 - IntOf(SubSeq(body, 2, Len(body)))
        ELSE IF Char(body, 1) = "+" THEN IntOf(SubSeq(body, 2, Len(body)))
        ELSE IntOf(body)

\* the keys of a dict of pages in ascending order (the order of insertion
\* is not kept)
RECURSIVE SortedKeys(_)
SortedKeys(S) ==
    IF S = {} THEN << >>
    ELSE LET least == CHOOSE k \in S : \A j \in S : k <= j
         IN  <<least>> \o SortedKeys(S \ {least})

\* get_clean_results keeping every key of the page
GetCleanResultsUnfiltered(session_results) ==
    LET keys == SortedKeys(DOMAIN session_results)
    IN  [n \in 1..Len(keys) |->
            [key |-> "page_" \o StrOfInt(keys[n] + 1), value |-> session_results[keys[n]]]]

\* get_clean_results(): the export, one entry of clean_page_data per page
GetCleanResults(session_results) ==
    LET keys == SortedKeys(DOMAIN session_results)
        CleanPageData(page_data) ==
            [f \in {"full_name", "series", "number", "registration_number", "issue_date"}
                    \cap DOMAIN page_data |-> page_data[f]]
    IN  [n \in 1..Len(keys) |->
            [key |-> "page_" \o StrOfInt(keys[n] + 1),
             value |-> CleanPageData(session_results[keys[n]])]]

\* the text of a string between its quotes, json.dumps(ensure_ascii=False)
RECURSIVE JsonEscape(_)
JsonEscape(s) ==
    IF Len(s) = 0 THEN ""
    ELSE LET c == Char(s, 1)
         IN  (CASE c = "\"" -> "\\\""
                [] c = "\\" -> "\\\\"
                [] c = "\n" -> "\\n"
                [] c = "\t" -> "\\t"
                [] OTHER -> c) \o JsonEscape(SubSeq(s, 2, Len(s)))

\* the string a literal stands for, json.loads
RECURSIVE JsonUnescape(_)
JsonUnescape(lit) ==
    IF Len(lit) = 0 THEN ""
    ELSE IF Char(lit, 1) = "\\" /\ Len(lit) >= 2
         THEN (CASE Char(lit, 2) = "n" -> "\n"
                 [] Char(lit, 2) = "t" -> "\t"
                 [] OTHER -> Char(lit, 2)) \o JsonUnescape(SubSeq(lit, 3, Len(lit)))
         ELSE Char(lit, 1) \o JsonUnescape(SubSeq(lit, 2, Len(lit)))

\* json.dumps(clean_export, ensure_ascii=False, indent=2): every value
\* becomes a string literal or a boolean
JsonDumps(clean_export) ==
    LET JsonDumpsValue(v) ==
            IF v.t = "str" THEN [t |-> "string", lit |-> JsonEscape(v.s), b |-> FALSE]
            ELSE [t |-> "bool", lit |-> "", b |-> v.b]
    IN  JsonText("object",
                 [n \in DOMAIN clean_export |->
                     [key |-> clean_export[n].key,
                      value |-> [f \in DOMAIN clean_export[n].value |->
                                    JsonDumpsValue(clean_export[n].value[f])]]])

\* update_json_editor(): the content after it
UpdateJsonEditor(session) ==
    IF session.results # EmptyDict THEN JsonDumps(GetCleanResults(session.results))
    ELSE session.json_editor_content

\* s.startswith(prefix)
StartsWith(s, prefix) == Len(s) >= Len(prefix) /\ SubSeq(s, 1, Len(prefix)) = prefix

\* page_key.split('_')[1]
PageNumberText(page_key) == SplitEach(page_key, {"_"})[2]

\* the loop of apply_json_changes over the first n members raises
RECURSIVE ApplyRaises(_, _)
ApplyRaises(members, n) ==
    IF n = 0 THEN FALSE
    ELSE \/ ApplyRaises(members, n - 1)
         \/ StartsWith(members[n].key, "page_") /\ ~IsIntLiteral(PageNumberText(members[n].key))

\* new_results after the first n members, page_data as json.loads gives it
RECURSIVE NewResults(_, _)
NewResults(members, n) ==
    LET JsonLoadsPage(value) ==
            [f \in DOMAIN value |->
                IF value[f].t = "string" THEN PyStr(JsonUnescape(value[f].lit))
                ELSE PyBool(value[f].b)]
    IN  IF n = 0 THEN EmptyDict
        ELSE IF StartsWith(members[n].key, "page_")
             THEN Put(NewResults(members, n - 1), PyInt(PageNumberText(members[n].key)) - 1,
                      JsonLoadsPage(members[n].value))
             ELSE NewResults(members, n - 1)

\* apply_json_changes(): how it ends and the results after it
ApplyJsonChanges(session) ==
    LET content == session.json_editor_content
    IN  IF content.t \in {"empty", "invalid"} THEN [ret |-> "invalid json", results |-> session.results]
        ELSE IF content.t # "object" \/ ApplyRaises(content.members, Len(content.members))
             THEN [ret |-> "error", results |-> session.results]
             ELSE [ret |-> "applied", results |-> NewResults(content.members, Len(content.members))]

\* get_confidence_icon(field_name, page_results): "none" for no value,
\* "uncertain" or "confident"
GetConfidenceIcon(field_name, page_results) ==
    IF field_name \notin DOMAIN page_results THEN "none"
    ELSE IF Strip(StrOf(page_results[field_name])) = "" THEN "none"
    ELSE IF UncertainKey(field_name) \in DOMAIN page_results
            /\ Truthy(page_results[UncertainKey(field_name)])
         THEN "uncertain"
         ELSE "confident"

InitApp ==
    /\ session_state = InitialSession
    /\ config = DefaultConfig
    /\ idx = 0
    /\ results = EmptyDict
    /\ shadow = EmptyDict
    /\ hist = EmptyDict
    /\ pc = "app"
    /\ call = NoCall

\* load_pdf(uploaded_file) for a PDF that gives pages images, none when the
\* conversion fails
LoadPdfPages(pages) ==
    /\ pc = "app"
    /\ session_state' =
          IF pages > 0
          THEN [session_state EXCEPT !.images = [i \in 1..pages |-> i],
                                     !.current_page = 0,
                                     !.results = EmptyDict,
                                     !.processing_complete = FALSE,
                                     !.show_all_pages = FALSE]
          ELSE session_state
    /\ call' = NoCall
    /\ UNCHANGED <<config, idx, results, shadow, hist, pc>>

\* render_sidebar: a file is uploaded
LoadPdf == \E pages \in 0..MaxPages : LoadPdfPages(pages)

\* render_sidebar: the choice of manual markup or of a configuration
SelectConfig ==
    /\ pc = "app"
    /\ \E selected \in {"manual"} \cup AppConfigKeys :
          /\ session_state' =
                IF selected = "manual"
                THEN [session_state EXCEPT !.manual_mode = TRUE, !.selected_config = "None"]
                ELSE [session_state EXCEPT !.manual_mode = FALSE, !.selected_config = selected]
          /\ call' = NoCall
    /\ UNCHANGED <<config, idx, results, shadow, hist, pc>>

\* render_manual_markup: the coordinates of one field are stored
MarkupField ==
    /\ pc = "app"
    /\ session_state.images # << >>
    /\ session_state.manual_mode
    /\ \E field_name \in ManualFieldNames :
          /\ field_name \notin {session_state.field_coords[i] : i \in DOMAIN session_state.field_coords}
          /\ session_state' = [session_state EXCEPT !.field_coords = Append(@, field_name)]
          /\ call' = NoCall
    /\ UNCHANGED <<config, idx, results, shadow, hist, pc>>

\* render_main_interface: another page is chosen in the selector
SelectPage ==
    /\ pc = "app"
    /\ Len(session_state.images) > 1
    /\ ~session_state.show_all_pages
    /\ \E page \in 0..(Len(session_state.images) - 1) :
          /\ page # session_state.current_page
          /\ session_state' = [session_state EXCEPT !.current_page = page]
          /\ call' = NoCall
    /\ UNCHANGED <<config, idx, results, shadow, hist, pc>>

\* the buttons of process_current_page and process_all_pages are shown
CanProcess ==
    /\ session_state.images # << >>
    /\ session_state.selected_config # "None" \/ session_state.manual_mode

\* the configuration the processing uses, if it finds one
HasProcessingConfig ==
    IF session_state.manual_mode THEN session_state.field_coords # << >>
    ELSE session_state.selected_config \in DOMAIN LoadedOrganizations

ProcessingConfig ==
    IF session_state.manual_mode
    THEN Config("MANUAL", "MANUAL", session_state.field_coords, NoPatterns)
    ELSE GetConfig(session_state.selected_config)

\* process_current_page()
ProcessCurrentPage ==
    /\ pc = "app"
    /\ CanProcess
    /\ IF ~HasProcessingConfig
       THEN /\ session_state' = session_state
            /\ call' = NoCall
       ELSE \E page_results \in ProcessSingleImage(ProcessingConfig) :
               LET stored == [session_state EXCEPT
                                 !.results = Put(@, session_state.current_page, page_results),
                                 !.processing_complete = TRUE]
               IN  /\ session_state' = [stored EXCEPT !.json_editor_content = UpdateJsonEditor(stored)]
                   /\ call' = NoCall
    /\ UNCHANGED <<config, idx, results, shadow, hist, pc>>

\* process_all_pages()
ProcessAllPages ==
    /\ pc = "app"
    /\ CanProcess
    /\ IF ~HasProcessingConfig
       THEN /\ session_state' = session_state
            /\ call' = NoCall
       ELSE \E all \in [0..(Len(session_state.images) - 1) -> ProcessSingleImage(ProcessingConfig)] :
               LET stored == [session_state EXCEPT !.results = all,
                                                   !.processing_complete = TRUE,
                                                   !.show_all_pages = TRUE]
               IN  /\ session_state' = [stored EXCEPT !.json_editor_content = UpdateJsonEditor(stored)]
                   /\ call' = NoCall
    /\ UNCHANGED <<config, idx, results, shadow, hist, pc>>

\* render_json_editor: the user replaces the export shown in the editor by
\* another text: no JSON, an array, or the export with the key of its first
\* page retyped as 'page_9', 'page_x' or 'note'
EditJson ==
    /\ pc = "app"
    /\ session_state.results # EmptyDict
    /\ session_state.json_editor_content = UpdateJsonEditor(session_state)
    /\ \E new_json \in
            {JsonText("invalid", << >>), JsonText("array", << >>)}
            \cup (IF Len(session_state.json_editor_content.members) > 0
                  THEN {JsonText("object",
                                 [session_state.json_editor_content.members EXCEPT ![1].key = k]) :
                           k \in {"page_9", "page_x", "note"}}
                  ELSE {}) :
          /\ session_state' = [session_state EXCEPT !.json_editor_content = new_json]
          /\ call' = NoCall
    /\ UNCHANGED <<config, idx, results, shadow, hist, pc>>

\* render_json_editor: the button that calls update_json_editor()
RefreshJson ==
    /\ pc = "app"
    /\ session_state.results # EmptyDict
    /\ session_state' = [session_state EXCEPT !.json_editor_content = UpdateJsonEditor(session_state)]
    /\ call' = NoCall
    /\ UNCHANGED <<config, idx, results, shadow, hist, pc>>

\* render_json_editor: the button that calls apply_json_changes()
ApplyJson ==
    /\ pc = "app"
    /\ session_state.results # EmptyDict
    /\ session_state' = [session_state EXCEPT !.results = ApplyJsonChanges(session_state).results]
    /\ call' = NoCall
    /\ UNCHANGED <<config, idx, results, shadow, hist, pc>>

\* export_clean_results(): the export handed to the download button
ExportCleanResults ==
    /\ pc = "app"
    /\ session_state.processing_complete
    /\ session_state.results # EmptyDict
    /\ call' = [op |-> "get_clean_results", args |-> << >>,
                ret |-> GetCleanResults(session_state.results), done |-> TRUE]
    /\ UNCHANGED <<config, idx, results, shadow, hist, pc, session_state>>

NextApp ==
    \/ LoadPdf
    \/ SelectConfig
    \/ MarkupField
    \/ SelectPage
    \/ ProcessCurrentPage
    \/ ProcessAllPages
    \/ EditJson
    \/ RefreshJson
    \/ ApplyJson
    \/ ExportCleanResults

SpecApp == InitApp /\ [][NextApp]_vars

(***************************************************************************)
(* Properties of process_document_with_parser                              *)
(***************************************************************************)

\* the fields the loop has handled
Handled == DOMAIN hist

IsComposite(field_name) == field_name = "series_and_number"

\* the keys process_document_with_parser writes for a field
KeysOf(field_name) ==
    IF IsComposite(field_name)
    THEN {"series", "number", "uncertain_series", "uncertain_number"}
    ELSE {field_name, UncertainKey(field_name)}

\* the entries of a field in a result map
Entries(res, field_name) == [k \in KeysOf(field_name) \cap DOMAIN res |-> res[k]]

\* key k is in the map with value v
Holds(res, k, v) == k \in DOMAIN res /\ res[k] = v

\* the uncertain markers of a field are in the map, with value True
IsMarked(res, field_name) ==
    IF IsComposite(field_name)
    THEN Holds(res, "uncertain_series", PyTrue) /\ Holds(res, "uncertain_number", PyTrue)
    ELSE Holds(res, UncertainKey(field_name), PyTrue)

\* the parser of a handled field was called and failed
ParserFailed(field_name) == hist[field_name].parser /\ Failed(field_name, hist[field_name].called)

\* the parser of a handled field was called and returned a result of the right shape
ParserSucceeded(field_name) == hist[field_name].parser /\ ~Failed(field_name, hist[field_name].called)

\* C1: process_document_with_parser ends by returning (the loop handles one
\* field per iteration and no exception leaves it), and the map has, for
\* every field handled so far, a key of that name or, for
\* 'series_and_number', both 'series' and 'number'; at the return every
\* configured field has been handled.
C1_EveryFieldHasAValue ==
    /\ pc # "raised"
    /\ idx <= Len(config.fields)
    /\ pc = "done" => idx = Len(config.fields)
    /\ \A i \in 1..idx :
          LET f == config.fields[i]
          IN  \/ f \in DOMAIN results
              \/ IsComposite(f) /\ {"series", "number"} \subseteq DOMAIN results

\* a returned run over two fields, one with empty text, one whose parser raised
C1_Witness ==
    /\ pc = "done"
    /\ \E f, g \in Handled :
          /\ f # g
          /\ hist[f].raw = ""
          /\ hist[g].parser /\ hist[g].called.raised

\* C2: no exception leaves process_document_with_parser, and every field
\* whose parser did not fail has the same entries as in the reference run,
\* in which the failing parsers return a well-formed result instead.
C2_FailureStaysInItsField ==
    /\ pc # "raised"
    /\ \A g \in Handled : ~ParserFailed(g) => Entries(results, g) = Entries(shadow, g)

\* a returned run in which one parser raised, changing that field's entries
\* only, next to a field whose parser did not fail
C2_Witness ==
    /\ pc = "done"
    /\ \E f, g \in Handled :
          /\ f # g
          /\ hist[f].parser /\ hist[f].called.raised
          /\ Entries(results, f) # Entries(shadow, f)
          /\ ~ParserFailed(g)

\* C3: a field without a parser and with non-empty raw text gets the raw
\* text verbatim (simple field) or the output of the regex fallback
\* (series_and_number), marked uncertain; in a config without patterns
\* every handled field is marked uncertain.
C3_NoParserGivesRawTextUncertain ==
    /\ \A f \in Handled :
          (hist[f].raw # "" /\ ~HasParser(config.patterns, f)) =>
              /\ IsMarked(results, f)
              /\ IF IsComposite(f)
                 THEN /\ Holds(results, "series", PyStr(ParseSeriesNumberFallback(hist[f].raw)[1]))
                      /\ Holds(results, "number", PyStr(ParseSeriesNumberFallback(hist[f].raw)[2]))
                 ELSE Holds(results, f, PyStr(hist[f].raw))
    /\ ~config.patterns.present => \A f \in Handled : IsMarked(results, f)

\* a returned run of a config without patterns over the composite field and
\* a simple field, both with text
C3_Witness ==
    /\ pc = "done"
    /\ ~config.patterns.present
    /\ "series_and_number" \in Handled
    /\ hist["series_and_number"].raw = "02 123456"
    /\ \E f \in Handled : ~IsComposite(f) /\ hist[f].raw # ""

\* C4: for a field whose trimmed raw text is empty neither the parser nor
\* the uncertainty engine is called; series_and_number gets series = "",
\* number = "" and both uncertain markers, any other field gets "" and its
\* uncertain marker.
C4_EmptyTextGivesEmptyUncertain ==
    \A f \in Handled :
        Strip(hist[f].raw) = "" =>
            /\ ~hist[f].parser
            /\ ~hist[f].engine
            /\ IsMarked(results, f)
            /\ IF IsComposite(f)
               THEN Holds(results, "series", PyStr("")) /\ Holds(results, "number", PyStr(""))
               ELSE Holds(results, f, PyStr(""))

\* a returned run in which the composite field and a simple field, both
\* with a parser configured, had empty text
C4_Witness ==
    /\ pc = "done"
    /\ \E f \in Handled :
          /\ ~IsComposite(f)
          /\ HasParser(config.patterns, f)
          /\ hist[f].raw = ""
    /\ "series_and_number" \in Handled
    /\ HasParser(config.patterns, "series_and_number")
    /\ hist["series_and_number"].raw = ""

\* the composite parser returned a result whose length is not 3, or whose
\* length cannot be taken
MalformedComposite(field_name) ==
    /\ IsComposite(field_name)
    /\ hist[field_name].parser
    /\ ~hist[field_name].called.raised
    /\ LenRaises(hist[field_name].called.val) \/ PyLen(hist[field_name].called.val) # 3

\* series and number are what the regex fallback makes of the raw text
SeriesNumberByRegex(field_name) ==
    /\ Holds(results, "series", PyStr(ParseSeriesNumberFallback(hist[field_name].raw)[1]))
    /\ Holds(results, "number", PyStr(ParseSeriesNumberFallback(hist[field_name].raw)[2]))

\* C5 as stated: a malformed result of the composite parser is handled like
\* a raised error: series and number come from the regex fallback on the raw
\* text, both uncertain.
C5_AsStated ==
    \A f \in Handled : MalformedComposite(f) => SeriesNumberByRegex(f) /\ IsMarked(results, f)

\* C5, amended: when the composite parser fails both halves are uncertain;
\* the regex fallback gives series and number when the parser raised or the
\* length of its result cannot be taken (None), while a result of a length
\* other than 3 gives series = "" and number = the raw text verbatim.
C5_MalformedCompositeKeepsRawText ==
    \A f \in Handled :
        (IsComposite(f) /\ ParserFailed(f)) =>
            /\ IsMarked(results, f)
            /\ IF hist[f].called.raised \/ LenRaises(hist[f].called.val)
               THEN SeriesNumberByRegex(f)
               ELSE Holds(results, "series", PyStr("")) /\ Holds(results, "number", PyStr(hist[f].raw))

\* a returned run in which the composite parser returned a 2-tuple for a
\* text the regex fallback would have split
C5_Witness ==
    /\ pc = "done"
    /\ "series_and_number" \in Handled
    /\ MalformedComposite("series_and_number")
    /\ hist["series_and_number"].called.val.t = "tuple"
    /\ hist["series_and_number"].raw = "02 123456"
    /\ Holds(results, "number", PyStr("02 123456"))

\* C6 as stated: when the parser of a simple field raises or returns a
\* malformed result, the field's value is the raw text verbatim, uncertain.
C6_AsStated ==
    \A f \in Handled :
        (~IsComposite(f) /\ ParserFailed(f)) =>
            Holds(results, f, PyStr(hist[f].raw)) /\ IsMarked(results, f)

\* C6, amended: when the parser of a simple field fails the field is
\* uncertain; its value is the raw text verbatim when the parser raised,
\* and str() of the returned object when the result is malformed.
C6_MalformedSimpleKeepsItsString ==
    \A f \in Handled :
        (~IsComposite(f) /\ ParserFailed(f)) =>
            /\ IsMarked(results, f)
            /\ IF hist[f].called.raised
               THEN Holds(results, f, PyStr(hist[f].raw))
               ELSE Holds(results, f, PyStr(StrOf(hist[f].called.val)))

\* a returned run in which the parser of a simple field returned None
C6_Witness ==
    /\ pc = "done"
    /\ \E f \in Handled :
          /\ ~IsComposite(f)
          /\ hist[f].parser
          /\ hist[f].called = Returned(PyNone)
          /\ Holds(results, f, PyStr("None"))

\* C7: after a well-formed parser result the uncertain markers of the field
\* are in the map iff the parser's bit is true or should_flag_uncertainty
\* (corrections_made false) flags the value: the pair (series, number) for
\* the composite field, the value for a simple field.
C7_UncertainIsBitOrEngine ==
    \A f \in Handled :
        ParserSucceeded(f) =>
            LET v == hist[f].called.val
                raw == hist[f].raw
            IN  IF IsComposite(f)
                THEN LET flagged ==
                             \/ Truthy(PyItem(v, 3))
                             \/ ShouldFlagUncertainty(config.organization, "series_and_number", raw,
                                                      PyTuple(<<PyItem(v, 1), PyItem(v, 2)>>), FALSE)
                     IN  /\ "uncertain_series" \in DOMAIN results <=> flagged
                         /\ "uncertain_number" \in DOMAIN results <=> flagged
                ELSE UncertainKey(f) \in DOMAIN results
                         <=> \/ Truthy(v.e[2])
                             \/ ShouldFlagUncertainty(config.organization, f, raw, v.e[1], FALSE)

\* a returned run in which the parsers of the composite field and of a
\* simple field both said "certain" and the engine flagged both
C7_Witness ==
    /\ pc = "done"
    /\ "series_and_number" \in Handled
    /\ ParserSucceeded("series_and_number")
    /\ ~Truthy(PyItem(hist["series_and_number"].called.val, 3))
    /\ "uncertain_series" \in DOMAIN results
    /\ \E f \in Handled :
          /\ ~IsComposite(f)
          /\ ParserSucceeded(f)
          /\ ~Truthy(hist[f].called.val.e[2])
          /\ UncertainKey(f) \in DOMAIN results

\* the names under which values are stored
ValueKeys == (FieldNames \ {"series_and_number"}) \cup {"series", "number"}

\* C8: every key uncertain_<field> of the map has the value True, and the
\* key <field> is in the map with it.
C8_UncertainKeysAreTrueAndAccompanied ==
    \A k \in DOMAIN results :
        \/ k \in ValueKeys
        \/ \E f \in ValueKeys : k = UncertainKey(f) /\ results[k] = PyTrue /\ f \in DOMAIN results

\* a returned run with a flagged field and a field without a marker
C8_Witness ==
    /\ pc = "done"
    /\ \E f, g \in ValueKeys :
          /\ {f, g, UncertainKey(f)} \subseteq DOMAIN results
          /\ UncertainKey(g) \notin DOMAIN results

\* C9: the map never has the key 'series_and_number' or
\* 'uncertain_series_and_number'; once the field 'series_and_number' is
\* handled the map has both 'series' and 'number'.
C9_CompositeNeverUnderItsOwnName ==
    /\ "series_and_number" \notin DOMAIN results
    /\ UncertainKey("series_and_number") \notin DOMAIN results
    /\ "series_and_number" \in Handled => {"series", "number"} \subseteq DOMAIN results

\* a returned run in which 'series_and_number' was handled with empty text,
\* next to a simple field
C9_Witness ==
    /\ pc = "done"
    /\ "series_and_number" \in Handled
    /\ hist["series_and_number"].raw = ""
    /\ Cardinality(Handled) = 2

(***************************************************************************)
(* Properties of should_flag_uncertainty                                   *)
(***************************************************************************)

\* a call without corrections for an organization without thresholds
UnknownOrganizationCall ==
    /\ call.op = "should_flag_uncertainty"
    /\ call.done
    /\ call.args.organization \notin KnownOrganizations
    /\ ~call.args.corrections_made

\* C10 as stated: for an organization other than the three known ones
\* should_flag_uncertainty with corrections_made false returns false.
C10_AsStated == UnknownOrganizationCall => ~call.ret

\* C10, amended: for an organization other than the three known ones the
\* thresholds are the defaults of the lookups, 3 digits, 5 characters of
\* name and 4 characters of number: with corrections_made false the call
\* returns false for every field outside registration_number, full_name and
\* the series/number names, and flags those against the defaults.
C10_UnknownOrganizationUsesDefaults ==
    UnknownOrganizationCall =>
        LET f == call.args.field_name
            v == call.args.parsed_result
        IN  call.ret <=>
                \/ f = "registration_number" /\ CountDigits(call.args.original_text) < 3
                \/ f = "full_name" /\ Len(Strip(StrOf(v))) < 5
                \/ /\ f \in {"series_and_number", "series", "number"}
                   /\ \/ v.t = "tuple" /\ Len(v.e) >= 2 /\ Len(StrOf(v.e[2])) < 4
                      \/ v.t = "str" /\ Len(v.s) < 4

\* a call for organization MANUAL that flags a registration number
C10_Witness ==
    /\ UnknownOrganizationCall
    /\ call.args.organization = "MANUAL"
    /\ call.args.field_name = "registration_number"
    /\ call.args.original_text = "ab"
    /\ call.ret

\* a finished call of should_flag_uncertainty
FlagCallDone == call.op = "should_flag_uncertainty" /\ call.done

\* C11: should_flag_uncertainty returns true whenever corrections_made is
\* true, for every organization, every field name, every original text and
\* every parsed value.
C11_CorrectionsAlwaysFlag == FlagCallDone /\ call.args.corrections_made => call.ret

\* a call with corrections_made true for an organization without thresholds
\* and a field outside the three families, with a value long enough not to
\* be flagged for its length
C11_Witness ==
    /\ FlagCallDone
    /\ call.args.corrections_made
    /\ call.args.organization = "GENERIC"
    /\ call.args.field_name = "issue_date"
    /\ call.args.parsed_result = PyStr("12345678")
    /\ call.ret

\* C12: for field 'registration_number' with corrections_made false,
\* should_flag_uncertainty returns true iff the original text has fewer
\* digit characters than min_reg_digits of the organization (4 for '1T', 3
\* for 'ROSNOU', 4 for 'FINUNIVERSITY'), whatever the parsed value is.
C12_RegistrationNumberCountsOriginalDigits ==
    /\ FlagCallDone
    /\ call.args.field_name = "registration_number"
    /\ ~call.args.corrections_made
    /\ call.args.organization \in KnownOrganizations
    => (call.ret <=> CountDigits(call.args.original_text)
                        < (IF call.args.organization = "ROSNOU" THEN 3 ELSE 4))

\* for '1T' the original text 'ab' flags although the parsed value has
\* eight digits
C12_Witness ==
    /\ FlagCallDone
    /\ call.args.field_name = "registration_number"
    /\ ~call.args.corrections_made
    /\ call.args.organization = "1T"
    /\ call.args.original_text = "ab"
    /\ call.args.parsed_result = PyStr("12345678")
    /\ call.ret

\* min_number_length of an organization; 4 is the default of the lookup
MinNumberLengthOf(organization) ==
    CASE organization = "ROSNOU" -> 6
      [] organization = "FINUNIVERSITY" -> 8
      [] OTHER -> 4

\* C13: for the field names 'series_and_number', 'series' and 'number' with
\* corrections_made false, should_flag_uncertainty given a two-element value
\* returns true iff its second element is shorter than min_number_length of
\* the organization, whatever the first element is, and given a plain
\* string returns true iff the string is shorter than that threshold.
C13_SeriesNumberMeasuresSecondElement ==
    /\ FlagCallDone
    /\ call.args.field_name \in {"series_and_number", "series", "number"}
    /\ ~call.args.corrections_made
    => LET v == call.args.parsed_result
           threshold == MinNumberLengthOf(call.args.organization)
       IN  /\ v.t = "tuple" /\ Len(v.e) = 2 /\ v.e[2].t = "str"
                => (call.ret <=> Len(v.e[2].s) < threshold)
           /\ v.t = "str" => (call.ret <=> Len(v.s) < threshold)

\* for 'ROSNOU' a pair with a long first and an empty second element flags,
\* under the field name 'number'
C13_Witness ==
    /\ FlagCallDone
    /\ call.args.field_name = "number"
    /\ ~call.args.corrections_made
    /\ call.args.organization = "ROSNOU"
    /\ call.args.parsed_result = PyTuple(<<PyStr("0212345678"), PyStr("")>>)
    /\ call.ret

(***************************************************************************)
(* Properties of the parsers                                               *)
(***************************************************************************)

\* a finished call of one of the parsers
ParseCallDone == call.op \in ParserNames /\ call.done

SeriesParserNames ==
    {"OneTParsers.parse_series_and_number", "RosNouParsers.parse_series_and_number",
     "FinUnivParsers.parse_series_and_number_v1", "FinUnivParsers.parse_series_and_number_v2"}

\* (series, number, uncertain) for a series-and-number parser and
\* (value, uncertain) for any other, with strings and a boolean
HasDocumentedShape(parser, v) ==
    /\ v.t = "tuple"
    /\ IF parser \in SeriesParserNames
       THEN Len(v.e) = 3 /\ v.e[1].t = "str" /\ v.e[2].t = "str" /\ v.e[3].t = "bool"
       ELSE Len(v.e) = 2 /\ v.e[1].t = "str" /\ v.e[2].t = "bool"

\* the first occurrence of pat in text names a month; valid tells whether
\* its day, month and year are a calendar date
WordDate(pat, text, valid) ==
    LET m == Search(pat, text)
        word == Lower(Group(pat, text, m, 2))
    IN  /\ m # NoMatch
        /\ word \in DOMAIN Months
        /\ valid = ValidDate(IntOf(Group(pat, text, m, 3)), IntOf(Months[word]),
                             IntOf(Group(pat, text, m, 1)))

\* the first occurrence of day.month.year in text; valid as above
DottedDate(text, valid) ==
    LET m == Search(DateDiplomaPattern, text)
    IN  /\ m # NoMatch
        /\ valid = ValidDate(IntOf(Group(DateDiplomaPattern, text, m, 3)),
                             IntOf(Group(DateDiplomaPattern, text, m, 2)),
                             IntOf(Group(DateDiplomaPattern, text, m, 1)))

\* the parser is a date parser, and what its patterns find in text is not
\* a calendar date
FindsOnlyInvalidDates(parser, text) ==
    CASE parser \in {"CommonParsers.parse_date_standard", "OneTParsers.parse_date_certificate"} ->
            WordDate(DateStandardPattern, text, FALSE)
      [] parser = "OneTParsers.parse_date_diploma" -> DottedDate(text, FALSE)
      [] parser = "FinUnivParsers.parse_date_from_text" ->
            /\ \E k \in DOMAIN DateFromTextPatterns : WordDate(DateFromTextPatterns[k], text, FALSE)
            /\ \A k \in DOMAIN DateFromTextPatterns : ~WordDate(DateFromTextPatterns[k], text, TRUE)
      [] OTHER -> FALSE

\* C14: every parser of CommonParsers, OneTParsers, RosNouParsers and
\* FinUnivParsers, for every non-empty text, returns without raising a
\* result of its documented shape, (value, uncertain) or (series, number,
\* uncertain) with a boolean uncertain; where a date parser finds a date
\* that is not a calendar date, the result is the trimmed text, flagged.
C14_ParsersReturnTheirShape ==
    ParseCallDone /\ call.args.text # ""
    => /\ ~call.ret.raised
       /\ HasDocumentedShape(call.op, call.ret.val)
       /\ FindsOnlyInvalidDates(call.op, call.args.text)
            => call.ret.val = Result2(Strip(call.args.text), TRUE)

\* parse_date_standard on day 31 of a month of 30 days
C14_Witness ==
    /\ ParseCallDone
    /\ call.op = "CommonParsers.parse_date_standard"
    /\ call.args.text = "x 31 Aprelya 2024"
    /\ call.ret = Returned(Result2("x 31 Aprelya 2024", TRUE))

\* 'YYYY-MM-DD' written from the matched year, the number of the month
\* named by the matched word and the matched day
IsoOfMatch(pat, text) ==
    LET m == Search(pat, text)
    IN  Group(pat, text, m, 3) \o "-" \o Months[Lower(Group(pat, text, m, 2))] \o "-"
        \o ZFill(Group(pat, text, m, 1), 2)

\* C15: parse_date_standard returns (ISO date, false) iff the first
\* occurrence of '<1-2 digits> <word> <4 digits>' in the text has a word
\* that, lowercased, is one of the twelve month names and year, month and
\* day are a calendar date; in every other case it returns the text trimmed
\* of surrounding whitespace, flagged.
C15_DateStandardIsoOrFlaggedText ==
    ParseCallDone /\ call.op = "CommonParsers.parse_date_standard"
    => call.ret = Returned(IF WordDate(DateStandardPattern, call.args.text, TRUE)
                           THEN Result2(IsoOfMatch(DateStandardPattern, call.args.text), FALSE)
                           ELSE Result2(Strip(call.args.text), TRUE))

\* '15 marta 2024' gives ('2024-03-15', false)
C15_Witness ==
    /\ ParseCallDone
    /\ call.op = "CommonParsers.parse_date_standard"
    /\ call.args.text = "15 marta 2024"
    /\ call.ret = Returned(Result2("2024-03-15", FALSE))

\* 2 digits, optional whitespace, 6 digits
TwoThenSixDigits == <<Atom(Digits, 2, 2, 1), Atom(Whitespace, 0, -1, 0), Atom(Digits, 6, 6, 2)>>

\* C16: OneTParsers.parse_series_and_number replaces every character that
\* is neither a digit nor whitespace by a space and then looks for 2 digits
\* followed, after optional whitespace, by 6 digits: on a match it returns
\* that 2-digit series and 6-digit number, uncertain iff the number has fewer
\* than 4 characters; on no match it returns ('', '', true).
C16_OneTSeriesAndNumber ==
    ParseCallDone /\ call.op = "OneTParsers.parse_series_and_number"
    => LET cleaned == ReplaceOutside(Strip(call.args.text), Digits \cup Whitespace)
           m == Search(TwoThenSixDigits, cleaned)
           series == Group(TwoThenSixDigits, cleaned, m, 1)
           number == Group(TwoThenSixDigits, cleaned, m, 2)
       IN  IF m # NoMatch
           THEN /\ call.ret = Returned(Result3(series, number, Len(number) < 4))
                /\ Len(series) = 2 /\ Len(number) = 6
           ELSE call.ret = Returned(Result3("", "", TRUE))

\* '02 123456' gives ('02', '123456', false)
C16_Witness ==
    /\ ParseCallDone
    /\ call.op = "OneTParsers.parse_series_and_number"
    /\ call.args.text = "02 123456"
    /\ call.ret = Returned(Result3("02", "123456", FALSE))

\* s consists of digit characters only
AllDigits(s) == \A i \in 1..Len(s) : Char(s, i) \in Digits

\* C17: OneTParsers.parse_reg_number, with d the digit characters of the
\* input in order: an empty d gives ('000000', true); 1 to 6 digits give d
\* left-padded with zeros to exactly 6 characters; more than 6 give d
\* unchanged; uncertain is true iff d has fewer than 4 digits.  The value
\* always has at least 6 characters, all digits.
C17_OneTRegNumberPadsToSix ==
    ParseCallDone /\ call.op = "OneTParsers.parse_reg_number"
    => LET d == DigitsOf(call.args.text)
           value == call.ret.val.e[1].s
       IN  /\ ~call.ret.raised
           /\ call.ret.val = Result2(value, Len(d) < 4)
           /\ Len(d) = 0 => value = "000000"
           /\ Len(d) \in 1..6 => value = SubSeq("000000", 1, 6 - Len(d)) \o d
           /\ Len(d) > 6 => value = d
           /\ Len(value) >= 6 /\ AllDigits(value)

\* 'a1b2' gives ('000012', true)
C17_Witness ==
    /\ ParseCallDone
    /\ call.op = "OneTParsers.parse_reg_number"
    /\ call.args.text = "a1b2"
    /\ call.ret = Returned(Result2("000012", TRUE))

\* C18: RosNouParsers.parse_series_and_number on a text with at least 10
\* digits (d = all its digits in order): the series is d[0:2], with '71',
\* '11' and '17' rewritten to '77'; the number is d[2:10] when d has 10 or
\* 11 digits and d[2:12] when it has 12 or more, and is never rewritten;
\* uncertain is true iff the series was rewritten.
C18_RosNouSeriesRewrittenTo77 ==
    /\ ParseCallDone
    /\ call.op = "RosNouParsers.parse_series_and_number"
    /\ Len(DigitsOf(call.args.text)) >= 10
    => LET d == DigitsOf(call.args.text)
           rewritten == SubSeq(d, 1, 2) \in {"71", "11", "17"}
       IN  call.ret = Returned(Result3(IF rewritten THEN "77" ELSE SubSeq(d, 1, 2),
                                       IF Len(d) \in {10, 11} THEN SubSeq(d, 3, 10)
                                       ELSE SubSeq(d, 3, 12),
                                       rewritten))

\* '17-D 11717117' has 10 digits: the series becomes '77', the number keeps
\* its '11', '71' and '17'
C18_Witness ==
    /\ ParseCallDone
    /\ call.op = "RosNouParsers.parse_series_and_number"
    /\ call.args.text = "17-D 11717117"
    /\ call.ret = Returned(Result3("77", "11717117", TRUE))

\* C19: RosNouParsers.parse_series_and_number on a text with fewer than 10
\* digits (d = all its digits in order, possibly none) returns uncertain =
\* true, a series of exactly 2 characters made of the leading (up to two)
\* digits of d left-padded with zeros, and as number the remaining digits of
\* d, so that no digit is lost; '71', '11' and '17' are not rewritten.
C19_ShortInputKeepsEveryDigit ==
    /\ ParseCallDone
    /\ call.op = "RosNouParsers.parse_series_and_number"
    /\ Len(DigitsOf(call.args.text)) < 10
    => LET d == DigitsOf(call.args.text)
           lead == Prefix(d, 2)
       IN  call.ret = Returned(Result3(SubSeq("00", 1, 2 - Len(lead)) \o lead,
                                       SubSeq(d, Len(lead) + 1, Len(d)),
                                       TRUE))

\* 5 digits, a hyphen and the letter D (the stand-in of the Cyrillic letter)
FiveDigitsHyphenD == <<Atom(Digits, 5, 5, 1), Atom(Hyphen, 1, 1, 0), Atom({"D"}, 1, 1, 0)>>

\* C20: RosNouParsers.parse_reg_number_diploma uppercases the input and
\* applies the corrections 'BAS', 'VAS', '8AS', 'AS', '8', '4', '0' -> 'D' in
\* that order; if the corrected text contains 5 consecutive digits followed
\* by '-D' the result is ('<those 5 digits>-D', c) with c true iff at least
\* one correction fired; otherwise the result is uncertain and its value is
\* the first up-to-5 digits of the original text left-padded with zeros to
\* 5, plus '-D' ('00000-D' when the original has no digit).
C20_RosNouRegNumberDiploma ==
    ParseCallDone /\ call.op = "RosNouParsers.parse_reg_number_diploma"
    => LET upper == Upper(call.args.text)
           corrected == AfterCorrections(upper, 7)
           fired == corrected # upper
           m == Search(FiveDigitsHyphenD, corrected)
           lead == Prefix(DigitsOf(call.args.text), 5)
       IN  call.ret = Returned(IF m # NoMatch
                               THEN Result2(Group(FiveDigitsHyphenD, corrected, m, 1) \o "-D", fired)
                               ELSE Result2(SubSeq("00000", 1, 5 - Len(lead)) \o lead \o "-D", TRUE))

\* '12345-BAS' gives ('12345-D', true)
C20_Witness ==
    /\ ParseCallDone
    /\ call.op = "RosNouParsers.parse_reg_number_diploma"
    /\ call.args.text = "12345-BAS"
    /\ call.ret = Returned(Result2("12345-D", TRUE))

\* (a) 2-4 letters, whitespace, at least 8 digits
LettersSpaceDigits ==
    <<Atom(UpperLetters, 2, 4, 1), Atom(Whitespace, 1, -1, 0), Atom(Digits, 8, -1, 2)>>

\* (b) 2-4 digits, whitespace, at least 8 digits
DigitsSpaceDigits == <<Atom(Digits, 2, 4, 1), Atom(Whitespace, 1, -1, 0), Atom(Digits, 8, -1, 2)>>

\* (c) 2-4 letters immediately followed by at least 8 digits
LettersDigits == <<Atom(UpperLetters, 2, 4, 1), Atom(Digits, 8, -1, 2)>>

\* the groups of pat in text, with uncertain = (number length < 8)
GroupsOf(pat, text) ==
    LET m == Search(pat, text)
        number == Group(pat, text, m, 2)
    IN  Result3(Group(pat, text, m, 1), number, Len(number) < 8)

\* C21: FinUnivParsers.parse_series_and_number_v1 tries (a), (b) and (c) in
\* that order on the uppercased text and returns the groups of the first
\* that matches, with uncertain = (number length < 8), so that a text
\* matching (a) and (b) yields the letter series; when none matches it
\* returns ('', '', true).  parse_series_and_number_v2 returns the same
\* result as v1 for every input.
C21_FinUnivSeriesFirstPatternWins ==
    /\ ParseCallDone
    /\ call.op \in {"FinUnivParsers.parse_series_and_number_v1",
                    "FinUnivParsers.parse_series_and_number_v2"}
    => LET upper == Upper(call.args.text)
       IN  call.ret = Returned(
               IF Search(LettersSpaceDigits, upper) # NoMatch THEN GroupsOf(LettersSpaceDigits, upper)
               ELSE IF Search(DigitsSpaceDigits, upper) # NoMatch
                    THEN GroupsOf(DigitsSpaceDigits, upper)
               ELSE IF Search(LettersDigits, upper) # NoMatch THEN GroupsOf(LettersDigits, upper)
               ELSE Result3("", "", TRUE))

\* v2 on a text where the digit form comes first and the letter form second
C21_Witness ==
    /\ ParseCallDone
    /\ call.op = "FinUnivParsers.parse_series_and_number_v2"
    /\ call.args.text = "7733 01156696 PK 771804095780"
    /\ call.ret = Returned(Result3("PK", "771804095780", FALSE))

\* s has the form YYYY-MM-DD
IsIsoString(s) ==
    /\ Len(s) = 10
    /\ \A i \in {1, 2, 3, 4, 6, 7, 9, 10} : Char(s, i) \in Digits
    /\ Char(s, 5) = "-" /\ Char(s, 8) = "-"

\* C22: feeding the value of a successful parse_date_standard call, an ISO
\* 'YYYY-MM-DD' string s, back into parse_date_standard never succeeds: the
\* second call returns (s, true).
C22_IsoOutputDoesNotReparse ==
    pc = "reparsed"
    => /\ IsIsoString(call.args.text)
       /\ call.ret = Returned(Result2(call.args.text, TRUE))

\* '2024-02-29', the output for 29 February 2024, comes back flagged
C22_Witness ==
    /\ pc = "reparsed"
    /\ call.args.text = "2024-02-29"
    /\ call.ret = Returned(Result2("2024-02-29", TRUE))

(***************************************************************************)
(* Properties of _parse_series_number_fallback                             *)
(***************************************************************************)

\* a finished call of the fallback
FallbackCallDone == call.op = FallbackName /\ call.done

\* the pair of strings (a, b)
Pair(a, b) == PyTuple(<<PyStr(a), PyStr(b)>>)

\* groups 1 and 2 of the first occurrence of pat in text
TwoGroupsOf(pat, text) ==
    Pair(Group(pat, text, Search(pat, text), 1), Group(pat, text, Search(pat, text), 2))

\* what the three patterns, tried in their order, give for text, or
\* otherwise
ByPatternsOr(text, otherwise) ==
    IF Search(FallbackPattern1, text) # NoMatch THEN TwoGroupsOf(FallbackPattern1, text)
    ELSE IF Search(FallbackPattern2, text) # NoMatch THEN TwoGroupsOf(FallbackPattern2, text)
    ELSE IF Search(FallbackPattern3, text) # NoMatch THEN TwoGroupsOf(FallbackPattern3, text)
    ELSE otherwise

\* no pattern matches text and the split of the trimmed text has two pieces
SplitsInTwo(text) ==
    /\ \A k \in DOMAIN FallbackPatterns : Search(FallbackPatterns[k], text) = NoMatch
    /\ Len(Split(Strip(text), Whitespace \cup Hyphen)) >= 2

\* C24 as stated: the fallback returns the groups of the first of its three
\* patterns that matches anywhere in the text; if none matches it splits the
\* trimmed text on runs of whitespace and hyphens and returns the first two
\* tokens when there are at least two, both of them non-empty, and otherwise
\* ('', trimmed text).
C24_AsStated ==
    FallbackCallDone
    => LET trimmed == Strip(call.args.text)
           parts == Split(trimmed, Whitespace \cup Hyphen)
       IN  /\ call.ret = Returned(ByPatternsOr(call.args.text,
                                               IF Len(parts) >= 2 THEN Pair(parts[1], parts[2])
                                               ELSE Pair("", trimmed)))
           /\ SplitsInTwo(call.args.text) => parts[1] # "" /\ parts[2] # ""

\* C24, amended: as above, but the two pieces returned after the split need
\* not be non-empty: the first is empty when the trimmed text begins with a
\* hyphen and the second may be empty when it ends with one, and only then.
C24_FallbackPatternsThenSplit ==
    FallbackCallDone
    => LET trimmed == Strip(call.args.text)
           parts == Split(trimmed, Whitespace \cup Hyphen)
       IN  /\ call.ret = Returned(ByPatternsOr(call.args.text,
                                               IF Len(parts) >= 2 THEN Pair(parts[1], parts[2])
                                               ELSE Pair("", trimmed)))
           /\ SplitsInTwo(call.args.text)
                => /\ parts[1] = "" <=> Char(trimmed, 1) = "-"
                   /\ parts[2] = "" => Char(trimmed, Len(trimmed)) = "-"

\* '-ab' has no match and splits into an empty piece and 'ab'
C24_Witness ==
    /\ FallbackCallDone
    /\ call.args.text = "-ab"
    /\ call.ret = Returned(Pair("", "ab"))

\* the ROSNOU form: 2 digits, optional '-' and letter, then 8-10 digits
RosNouForm ==
    <<Atom(Digits, 2, 2, 1), Atom(Hyphen, 0, 1, 0), Atom(UpperLetters \cup LowerLetters, 0, 1, 0),
      Atom(Whitespace, 0, -1, 0), Atom(Digits, 8, 10, 2)>>

\* the FinUniv form: 2-4 digits, whitespace, at least 8 digits
FinUnivForm == <<Atom(Digits, 2, 4, 1), Atom(Whitespace, 1, -1, 0), Atom(Digits, 8, -1, 2)>>

\* the whole of text has the form
IsOfForm(form, text) ==
    /\ MatchFrom(form, 1, text, 1) # NoMatchLens
    /\ SumLens(MatchFrom(form, 1, text, 1), Len(form), 1..Len(form)) = Len(text)

\* the two groups of a text that has the form
FormGroups(form, text) ==
    LET m == [start |-> 1, lens |-> MatchFrom(form, 1, text, 1)]
    IN  Pair(Group(form, text, m, 1), Group(form, text, m, 2))

\* C25: for a text in the ROSNOU form ('12-D 2024000010') the fallback
\* returns the 2-digit series and the whole 8-10-digit number, and for a text
\* in the FinUniv form ('7733 01156696') the whole leading digit group as
\* series and the whole trailing digit group as number.
C25_FormsKeepTheirGroups ==
    FallbackCallDone
    => /\ IsOfForm(RosNouForm, call.args.text)
            => call.ret = Returned(FormGroups(RosNouForm, call.args.text))
       /\ IsOfForm(FinUnivForm, call.args.text)
            => call.ret = Returned(FormGroups(FinUnivForm, call.args.text))

(***************************************************************************)
(* Properties of the final map                                             *)
(***************************************************************************)

\* C26: no field of the configurations is itself named 'series' or
\* 'number', and the map built by process_document_with_parser contains
\* uncertain_series exactly when it contains uncertain_number, after every
\* iteration and on return.
C26_SeriesAndNumberFlaggedTogether ==
    /\ \A i \in DOMAIN config.fields : config.fields[i] \notin {"series", "number"}
    /\ pc \in {"loop", "done"}
         => ("uncertain_series" \in DOMAIN results <=> "uncertain_number" \in DOMAIN results)

\* a returned map whose composite field came well-formed and confident from
\* its parser and was flagged by the uncertainty engine, both halves marked
C26_Witness ==
    /\ pc = "done"
    /\ "series_and_number" \in Handled
    /\ ParserSucceeded("series_and_number")
    /\ hist["series_and_number"].engine
    /\ "uncertain_series" \in DOMAIN results
    /\ "uncertain_number" \in DOMAIN results

\* the five value keys of the final map
ReportedFields == {"full_name", "series", "number", "registration_number", "issue_date"}

\* the configuration is one of the six that _setup_parsers gives parsers to
IsRegisteredMapping ==
    /\ config.name \in {"1T_CERTIFICATE", "1T_DIPLOMA", "ROSNOU_DIPLOMA", "ROSNOU_CERTIFICATE",
                        "FINUNIVCERTV1", "FINUNIVCERTV2"}
    /\ config.patterns = Patterns(ParsersMapping[config.name])

\* C27: under each of the six registered parser mappings, whatever the raw
\* texts, a field of the map that holds the empty string has its
\* uncertain_<field> key: nothing is reported empty and confident.
C27_NoFieldEmptyAndConfident ==
    IsRegisteredMapping /\ pc \in {"loop", "done"}
    => \A f \in ReportedFields : Holds(results, f, PyStr("")) => UncertainKey(f) \in DOMAIN results

\* a returned map of a registered mapping in which a parser that ran on
\* non-empty text left an empty value, marked uncertain
C27_Witness ==
    /\ IsRegisteredMapping
    /\ pc = "done"
    /\ \E g \in Handled :
          /\ hist[g].raw # ""
          /\ ParserSucceeded(g)
          /\ \E f \in KeysOf(g) \cap ReportedFields :
                Holds(results, f, PyStr("")) /\ UncertainKey(f) \in DOMAIN results

\* the whole of text is 5 digits followed by '-D'
IsFiveDigitsHyphenD(text) ==
    /\ Len(text) = 7
    /\ \A i \in 1..5 : Char(text, i) \in Digits
    /\ SubSeq(text, 6, 7) = "-D"

\* C28: RosNouParsers.parse_reg_number_diploma returns uncertain = false
\* only for an input that has none of the digits '0', '4', '8' and, once
\* uppercased, no 'AS' in it, so that an input with one of those digits comes
\* back uncertain even in the exact form 'NNNNN-D'; and an input that is
\* exactly 5 digits followed by '-D' comes back with a value equal to it
\* (uncertain exactly when one of its digits is '0', '4' or '8').
C28_DiplomaRegNumberConfidentOnlyUncorrected ==
    ParseCallDone /\ call.op = "RosNouParsers.parse_reg_number_diploma"
    => /\ ~call.ret.val.e[2].b
            => /\ \A i \in 1..Len(call.args.text) : Char(call.args.text, i) \notin {"0", "4", "8"}
               /\ ~Contains(Upper(call.args.text), "AS")
       /\ IsFiveDigitsHyphenD(call.args.text)
            => /\ call.ret.val.e[1] = PyStr(call.args.text)
               /\ call.ret.val.e[2].b
                    <=> \E i \in 1..5 : Char(call.args.text, i) \in {"0", "4", "8"}

\* '12845-D' has the exact form and comes back unchanged but uncertain
C28_Witness ==
    /\ ParseCallDone
    /\ call.op = "RosNouParsers.parse_reg_number_diploma"
    /\ call.args.text = "12845-D"
    /\ call.ret = Returned(Result2("12845-D", TRUE))

(***************************************************************************)
(* Properties of the application                                           *)
(***************************************************************************)

\* the export has just been handed to the download button
ExportDone == call.op = "get_clean_results" /\ call.done

\* the names of the five value fields
ValueFieldNames == {"full_name", "series", "number", "registration_number", "issue_date"}

\* C23: get_clean_results has one entry per page index i of the session
\* results, under the key 'page_<i+1>', and the value of that entry has
\* exactly those of full_name, series, number, registration_number and
\* issue_date that the page's map has, each with the page's value; no
\* uncertain_* key and no other key is in the export.
C23_ExportKeepsOnlyTheValueFields ==
    ExportDone
    => LET export == call.ret
           pages == session_state.results
       IN  /\ Len(export) = Cardinality(DOMAIN pages)
           /\ \A i \in DOMAIN pages :
                 \E n \in DOMAIN export :
                    /\ export[n].key = "page_" \o StrOfInt(i + 1)
                    /\ DOMAIN export[n].value = ValueFieldNames \cap DOMAIN pages[i]
                    /\ \A f \in DOMAIN export[n].value : export[n].value[f] = pages[i][f]
           /\ \A n \in DOMAIN export : \A f \in DOMAIN export[n].value :
                 f \in ValueFieldNames /\ ~StartsWith(f, "uncertain_")

\* an export of two pages, one of them with an uncertain registration number
C23_Witness ==
    /\ ExportDone
    /\ Len(call.ret) = 2
    /\ \E i \in DOMAIN session_state.results :
          /\ "uncertain_registration_number" \in DOMAIN session_state.results[i]
          /\ \E n \in DOMAIN call.ret :
                /\ call.ret[n].key = "page_" \o StrOfInt(i + 1)
                /\ "registration_number" \in DOMAIN call.ret[n].value

\* the maps process_current_page and process_all_pages can store for a page
ProcessedPageMaps ==
    UNION ({ProcessSingleImage(GetConfig(k)) : k \in AppConfigKeys}
           \cup {ProcessSingleImage(Config("MANUAL", "MANUAL", <<f>>, NoPatterns)) : f \in ManualFieldNames})

\* the editor holds what update_json_editor writes for the present results,
\* all of them stored by the processing
UnmodifiedExport ==
    /\ \A i \in DOMAIN session_state.results : session_state.results[i] \in ProcessedPageMaps
    /\ session_state.json_editor_content = JsonDumps(GetCleanResults(session_state.results))

\* C29: apply_json_changes on the unmodified content that update_json_editor
\* wrote for results stored by the processing leaves the results as they
\* were: the same page indices, the same values, the same uncertain_*
\* markers, and so the same icon of get_confidence_icon for every field.
C29_RoundTripKeepsResults ==
    [][ApplyJson /\ UnmodifiedExport
       => /\ session_state'.results = session_state.results
          /\ \A i \in DOMAIN session_state.results : \A f \in ValueFieldNames :
                /\ i \in DOMAIN session_state'.results
                /\ GetConfidenceIcon(f, session_state'.results[i])
                     = GetConfidenceIcon(f, session_state.results[i])]_vars

\* every key of the results is the index of a loaded page
KeysAreLoadedPages ==
    \A k \in DOMAIN session_state.results : 0 <= k /\ k < Len(session_state.images)

\* C30: every key of st.session_state.results is an index into
\* st.session_state.images after any sequence of load_pdf,
\* process_current_page, process_all_pages, page selection and
\* apply_json_changes; a successful load_pdf leaves results empty,
\* current_page 0 and processing_complete false; and an apply_json_changes
\* that fails leaves the results unchanged.
C30_ResultsKeysAreLoadedPages ==
    /\ []KeysAreLoadedPages
    /\ [][/\ \A pages \in 1..MaxPages :
                LoadPdfPages(pages)
                => /\ session_state'.results = EmptyDict
                   /\ session_state'.current_page = 0
                   /\ ~session_state'.processing_complete
          /\ ApplyJson /\ ApplyJsonChanges(session_state).ret # "applied"
                => session_state'.results = session_state.results]_vars

====
